---- MODULE Spec2Model ----
(***************************************************************************)
(* The housekeeper of crates/services/src/housekeeper/mod.rs: the delay    *)
(* queue, the scheduler task of spawn_housekeeper, the tasks it spawns     *)
(* and Purge::purge with its cluster lock.                                 *)
(*                                                                         *)
(* Time is an Instant in seconds.  Every handler runs at one instant; the  *)
(* clock moves between steps (Advance).                                    *)
(***************************************************************************)
EXTENDS Integers, Sequences, FiniteSets, Bags, TLC

VARIABLES
    now,                 \* Instant::now(), seconds
    cfg,                 \* the shared configuration root (inner)
    heap,                \* queue.heap: a bag of Action
    pc,                  \* position of the scheduler task
    server,              \* the snapshot of inner.build_server() in use
    todo,                \* startup: ACME providers still to initialise
    event,               \* the popped Action being matched
    next_metric_update,  \* spawn_housekeeper's local of that name
    intake,              \* rx: HousekeeperEvents in flight (FIFO)
    rx_closed,           \* every sender of the intake is gone
    tasks,               \* tokio::spawn'ed tasks: a bag of task records
    locks,               \* the lookup store's KV_LOCK_HOUSEKEEPER locks
    principal,           \* a PrincipalSet: id, typ and the fields map
    result               \* what the last call on the PrincipalSet returned

vars == <<now, cfg, heap, pc, server, todo, event, next_metric_update,
          intake, rx_closed, tasks, locks, principal, result>>

\* the housekeeper holds no PrincipalSet and calls none of its methods
NoPrincipal == [id |-> 0, typ |-> "Individual", fields |-> <<>>]
NoResult == [op |-> "none", key |-> "", was |-> "", value |-> "", strs |-> {},
             ints |-> {}, doc |-> <<>>, err |-> ""]

----------------------------------------------------------------------------
(* Bounds of the model *)

\* the clock moves in steps of Quantum seconds, MaxTicks times at most
Quantum == 300
MaxTicks == 3
Horizon == MaxTicks * Quantum
\* capacity of the intake channel in the model
MaxIntake == 1
\* tasks alive at a time
MaxTasks == 1

----------------------------------------------------------------------------
(* Program constants *)

\* Duration::from_secs(5 * 60)
CALC_METRICS_PERIOD == 5 * 60
\* Duration::from_secs(86400)
OTHER_METRICS_PERIOD == 86400
\* Duration::from_secs(3600), the fallback of a failed renewal
ACME_RETRY == 3600
\* try_lock(KV_LOCK_HOUSEKEEPER, lock_name, 3600)
LOCK_TTL == 3600
\* common::LONG_1D_SLUMBER
LONG_1D_SLUMBER == 86400

----------------------------------------------------------------------------
(* ActionClass and Action *)

Account == [class |-> "Account", idx |-> 0, id |-> ""]
Store(i) == [class |-> "Store", idx |-> i, id |-> ""]
Acme(p) == [class |-> "Acme", idx |-> 0, id |-> p]
OtelMetrics == [class |-> "OtelMetrics", idx |-> 0, id |-> ""]
CalculateMetrics == [class |-> "CalculateMetrics", idx |-> 0, id |-> ""]

Action(due, ev) == [due |-> due, event |-> ev]
NoAction == [due |-> 0, event |-> [class |-> "None", idx |-> 0, id |-> ""]]

----------------------------------------------------------------------------
(* Configuration: what inner.build_server() reads *)

Roles(b) == [purge_accounts |-> b, purge_stores |-> b, push_metrics |-> b,
             renew_acme |-> b, calculate_metrics |-> b]
RoleSets == {Roles(TRUE), Roles(FALSE)}

\* core.metrics.otel: Option<OtelMetrics>
NoOtel == [some |-> FALSE, interval |-> 0]
Otel(i) == [some |-> TRUE, interval |-> i]

\* PurgeStore of a purge schedule, and the PurgeType of a purge
PurgeStoreData(s) == [type |-> "Data", store |-> s, some |-> FALSE]
PurgeStoreBlobs(s) == [type |-> "Blobs", store |-> s, some |-> FALSE]
PurgeStoreLookup(s) == [type |-> "Lookup", store |-> s, some |-> FALSE]
Schedule(c, st) == [cron |-> c, store |-> st]

\* the configurations of the model: everything configured (OTEL push, one
\* purge schedule, one ACME provider "p") or nothing, under either RoleSet
FullConfig(r) == [roles |-> r, otel |-> Otel(Quantum),
                  account_purge_frequency |-> 3 * Quantum,
                  purge_schedules |-> <<Schedule(2 * Quantum, PurgeStoreData(0))>>,
                  providers |-> <<"p">>]
BareConfig(r) == [roles |-> r, otel |-> NoOtel,
                  account_purge_frequency |-> 3 * Quantum,
                  purge_schedules |-> <<>>, providers |-> <<>>]
Configs == {FullConfig(r) : r \in RoleSets} \cup {BareConfig(r) : r \in RoleSets}

NoServer == [roles |-> Roles(FALSE), otel |-> NoOtel,
             account_purge_frequency |-> 0, purge_schedules |-> <<>>,
             providers |-> <<>>]

\* SimpleCron::time_to_next: the time from t to the cron's next occurrence;
\* a cron of period c fires at the multiples of c
time_to_next(c, t) == c - (t % c)

\* the answers of server.init_acme and server.renew
AcmeOk(d) == [ok |-> TRUE, d |-> d]
AcmeErr == [ok |-> FALSE, d |-> 0]
AcmeResults == {AcmeErr, AcmeOk(Quantum)}

----------------------------------------------------------------------------
(* Queue *)

Range(f) == {f[i] : i \in DOMAIN f}

\* the smallest due instant of a non-empty heap: what heap.peek() holds
MinDue(h) == CHOOSE d \in {a.due : a \in BagToSet(h)} :
                 \A a \in BagToSet(h) : d <= a.due

\* Queue::schedule
schedule(h, due, ev) == h (+) SetToBag({Action(due, ev)})

\* a remove_action that retains every entry
remove_action_RetainsAll(h, ev) == h

\* Queue::remove_action
remove_action(h, ev) ==
    LET keep == {a \in BagToSet(h) : a.event # ev}
    IN  [a \in keep |-> CopiesIn(a, h)]

\* Queue::has_action
has_action(h, ev) == \E a \in BagToSet(h) : a.event = ev

\* a wake_up_time that subtracts without saturating
wake_up_time_Unsaturated(h, t) ==
    IF h = EmptyBag THEN LONG_1D_SLUMBER ELSE MinDue(h) - t

\* Queue::wake_up_time
wake_up_time(h, t) ==
    IF h = EmptyBag THEN LONG_1D_SLUMBER
    ELSE IF MinDue(h) > t THEN MinDue(h) - t ELSE 0

\* a pop of a heap that is not ordered by due: any entry that is due
PopSet_Unordered(h, t) == {a \in BagToSet(h) : a.due <= t}

\* Queue::pop with impl Ord for Action: the entries heap.pop() may return
\* at instant t (the heap orders by due alone, ties in any order)
PopSet(h, t) ==
    IF h = EmptyBag THEN {}
    ELSE {a \in BagToSet(h) : a.due = MinDue(h) /\ a.due <= t}

CountOf(h, ev) ==
    LET S == {a \in BagToSet(h) : a.event = ev}
        RECURSIVE Sum(_)
        Sum(T) == IF T = {} THEN 0
                  ELSE LET a == CHOOSE x \in T : TRUE
                       IN  CopiesIn(a, h) + Sum(T \ {a})
    IN  Sum(S)

----------------------------------------------------------------------------
(* HousekeeperEvent and PurgeType *)

ReloadSettings == [type |-> "ReloadSettings"]
AcmeReschedule(p, t) == [type |-> "AcmeReschedule", provider_id |-> p, renew_at |-> t]
Purge(p) == [type |-> "Purge", purge |-> p]
Exit == [type |-> "Exit"]

PurgeData(s) == [type |-> "Data", store |-> s, some |-> FALSE]
PurgeBlobs(s) == [type |-> "Blobs", store |-> s, some |-> FALSE]
\* Lookup { store, prefix }: some = the prefix is Some(_)
PurgeLookup(s, pre) == [type |-> "Lookup", store |-> s, some |-> pre]
\* Account(account_id): some = the account id is Some(_)
PurgeAccount(a) == [type |-> "Account", store |-> 0, some |-> a]

----------------------------------------------------------------------------
(* Spawned tasks *)

\* server.purge(purge, store_idx), before its first step
\* (time: the Instant of line 470, read for Elapsed at Finished)
PurgeTask(p, idx) == [kind |-> "purge", pc |-> "begin", purge |-> p,
                      store_idx |-> idx, time |-> 0, log |-> <<>>]
\* the renewal task of an Acme(provider_id) firing; the server it holds may
\* not know the provider
AcmeTask(p) == [kind |-> "acme", pc |-> "renew", provider_id |-> p,
                ok |-> FALSE, renew_at |-> 0, broadcasts |-> 0]
\* the ACME reload task of a ReloadSettings
ReloadTask(srv) == [kind |-> "reload", pc |-> "init", providers |-> srv.providers,
                    renew_at |-> 0]
\* otel.push_metrics
OtelTask == [kind |-> "otel", pc |-> "push"]
\* the metrics calculation task
CalcTask(upd, srv) == [kind |-> "calc", pc |-> "run",
                       update_other_metrics |-> upd,
                       calculate_metrics |-> srv.roles.calculate_metrics]

Live(ts) == LET keep == {t \in BagToSet(ts) : t.pc # "done"}
            IN  [t \in keep |-> CopiesIn(t, ts)]

\* a node that only renews the certificates of its one ACME provider "p"
RenewConfig == [BareConfig([Roles(FALSE) EXCEPT !.renew_acme = TRUE])
                   EXCEPT !.providers = <<"p">>]

\* the tasks alive at a time: one more on the node of RenewConfig, where a
\* renewal, the ACME reload of a ReloadSettings and a second renewal meet
TaskLimit == IF cfg = RenewConfig THEN MaxTasks + 1 ELSE MaxTasks

CanSpawn == BagCardinality(Live(tasks)) < TaskLimit

\* tokio::spawn: the finished tasks of the bag are forgotten
Spawn(ts, t) == Live(ts) (+) SetToBag({t})

\* a task t of the bag becomes u
Replace(ts, t, u) == (ts (-) SetToBag({t})) (+) SetToBag({u})

----------------------------------------------------------------------------
(* The scheduler task: startup *)

Init ==
    /\ now = 0
    /\ cfg \in Configs
    /\ heap = EmptyBag
    /\ pc = "start"
    /\ server = NoServer
    /\ todo = <<>>
    /\ event = NoAction
    /\ next_metric_update = 0
    /\ intake = <<>>
    /\ rx_closed = FALSE
    /\ tasks = EmptyBag
    /\ locks = {}
    /\ principal = NoPrincipal
    /\ result = NoResult

\* the Store(idx) seeds of the purge schedules
RECURSIVE SeedStores(_, _, _)
SeedStores(h, scheds, n) ==
    IF n = 0 THEN h
    ELSE SeedStores(schedule(h, now + time_to_next(scheds[n].cron, now), Store(n - 1)),
                    scheds, n - 1)

\* a seeding that does not look at the roles of the node
Seeded_IgnoresRoles(srv) ==
    LET h1 == schedule(EmptyBag,
                       now + time_to_next(srv.account_purge_frequency, now),
                       Account)
        h2 == SeedStores(h1, srv.purge_schedules, Len(srv.purge_schedules))
        h3 == IF srv.otel.some
              THEN schedule(h2, now + srv.otel.interval, OtelMetrics)
              ELSE h2
    IN  schedule(h3, now, CalculateMetrics)

\* the queue after the seeding of lines 57-84
Seeded(srv) ==
    LET h1 == IF srv.roles.purge_accounts
              THEN schedule(EmptyBag,
                            now + time_to_next(srv.account_purge_frequency, now),
                            Account)
              ELSE EmptyBag
        h2 == IF srv.roles.purge_stores
              THEN SeedStores(h1, srv.purge_schedules, Len(srv.purge_schedules))
              ELSE h1
        h3 == IF srv.roles.push_metrics /\ srv.otel.some
              THEN schedule(h2, now + srv.otel.interval, OtelMetrics)
              ELSE h2
    IN  schedule(h3, now, CalculateMetrics)

Seed ==
    /\ pc = "start"
    /\ server' = cfg
    /\ heap' = Seeded(cfg)
    /\ todo' = IF cfg.roles.renew_acme THEN cfg.providers ELSE <<>>
    /\ pc' = "init_acme"
    /\ UNCHANGED <<now, cfg, event, next_metric_update, intake, rx_closed,
                   tasks, locks, principal, result>>

\* a startup that returns on the error of init_acme
StartupAcme_Propagates(r) ==
    /\ pc = "init_acme"
    /\ todo # <<>>
    /\ heap' = IF r.ok THEN schedule(heap, now + r.d, Acme(Head(todo))) ELSE heap
    /\ todo' = Tail(todo)
    /\ pc' = IF r.ok THEN pc ELSE "stopped"
    /\ UNCHANGED <<now, cfg, server, event, next_metric_update, intake,
                   rx_closed, tasks, locks, principal, result>>

\* server.init_acme(provider).await of the startup, answered r
StartupAcme(r) ==
    /\ pc = "init_acme"
    /\ todo # <<>>
    /\ heap' = IF r.ok THEN schedule(heap, now + r.d, Acme(Head(todo))) ELSE heap
    /\ todo' = Tail(todo)
    /\ UNCHANGED <<now, cfg, pc, server, event, next_metric_update, intake,
                   rx_closed, tasks, locks, principal, result>>

EnterLoop ==
    /\ pc = "init_acme"
    /\ todo = <<>>
    /\ next_metric_update' = now
    /\ server' = NoServer
    /\ pc' = "wait"
    /\ UNCHANGED <<now, cfg, heap, todo, event, intake, rx_closed, tasks,
                   locks, principal, result>>

----------------------------------------------------------------------------
(* The scheduler task: the intake branch, Ok(Some(event)) and Ok(None) *)

Receiving == pc = "wait" /\ intake # <<>>

\* the queue after ReloadSettings reloaded the OTEL push metrics
ReloadOtel(h, srv) ==
    IF srv.otel.some /\ ~has_action(h, OtelMetrics)
    THEN schedule(h, now + srv.otel.interval, OtelMetrics)
    ELSE h

\* HousekeeperEvent::ReloadSettings up to queue_tx.send(..).await
RecvReloadSettings ==
    /\ Receiving
    /\ Head(intake).type = "ReloadSettings"
    /\ intake' = Tail(intake)
    /\ server' = cfg
    /\ heap' = ReloadOtel(heap, cfg)
    /\ pc' = "reload_send"
    /\ UNCHANGED <<now, cfg, todo, event, next_metric_update, rx_closed,
                   tasks, locks, principal, result>>

\* queue_tx.send(QueueEvent::ReloadSettings).await returned; the ACME reload
\* task is spawned and the loop waits again
ReloadSend ==
    /\ pc = "reload_send"
    /\ IF server.providers # <<>>
       THEN CanSpawn /\ tasks' = Spawn(tasks, ReloadTask(server))
       ELSE tasks' = tasks
    /\ server' = NoServer
    /\ pc' = "wait"
    /\ UNCHANGED <<now, cfg, heap, todo, event, next_metric_update, intake,
                   rx_closed, locks, principal, result>>

\* an AcmeReschedule handler that queues the entry beside the ones queued
Rescheduled_NoRemove(h, id, renew_at) ==
    schedule(h, renew_at, Acme(id))

\* HousekeeperEvent::AcmeReschedule
Rescheduled(h, id, renew_at) ==
    schedule(remove_action(h, Acme(id)), renew_at, Acme(id))

RecvAcmeReschedule ==
    /\ Receiving
    /\ Head(intake).type = "AcmeReschedule"
    /\ intake' = Tail(intake)
    /\ heap' = Rescheduled(heap, Head(intake).provider_id, Head(intake).renew_at)
    /\ UNCHANGED <<now, cfg, pc, server, todo, event, next_metric_update,
                   rx_closed, tasks, locks, principal, result>>

\* a Purge handler that queues the purge as a Store firing does
RecvPurge_Queues ==
    /\ Receiving
    /\ Head(intake).type = "Purge"
    /\ CanSpawn
    /\ intake' = Tail(intake)
    /\ tasks' = Spawn(tasks, PurgeTask(Head(intake).purge, 0))
    /\ heap' = schedule(heap, now + Quantum, Store(0))
    /\ UNCHANGED <<now, cfg, pc, server, todo, event,
                   next_metric_update, rx_closed, locks, principal, result>>

\* HousekeeperEvent::Purge
RecvPurge ==
    /\ Receiving
    /\ Head(intake).type = "Purge"
    /\ CanSpawn
    /\ intake' = Tail(intake)
    /\ tasks' = Spawn(tasks, PurgeTask(Head(intake).purge, 0))
    /\ UNCHANGED <<now, cfg, heap, pc, server, todo, event,
                   next_metric_update, rx_closed, locks, principal, result>>

\* a return that stays in the loop
Return_Continue ==
    /\ pc' = "wait"
    /\ UNCHANGED <<now, cfg, heap, server, todo, event, next_metric_update,
                   rx_closed, tasks, locks, principal, result>>

\* Stop is emitted and the task returns; its queue and its intake handle are
\* dropped with what they hold, which no step reads any more
Return ==
    /\ pc' = "stopped"
    /\ UNCHANGED <<now, cfg, heap, server, todo, event, next_metric_update,
                   rx_closed, tasks, locks, principal, result>>

\* HousekeeperEvent::Exit
RecvExit ==
    /\ Receiving
    /\ Head(intake).type = "Exit"
    /\ intake' = Tail(intake)
    /\ Return

\* Ok(None): the intake is closed and empty
RecvClosed ==
    /\ pc = "wait"
    /\ intake = <<>>
    /\ rx_closed
    /\ UNCHANGED intake
    /\ Return

----------------------------------------------------------------------------
(* The scheduler task: the timer branch, Err(_) *)

\* tokio::time::timeout(queue.wake_up_time(), rx.recv()): the timeout set at
\* the loop's head, t0 + wake_up_time(t0), has elapsed when nothing is left
\* of the time to wake up (the heap changes in no handler that does not
\* return to the loop's head; an empty heap sleeps beyond the Horizon)
Elapsed == wake_up_time(heap, now) = 0

\* the timeout elapsed and rx.recv() had nothing
Timeout ==
    /\ pc = "wait"
    /\ intake = <<>>
    /\ ~rx_closed
    /\ Elapsed
    /\ server' = cfg
    /\ pc' = "tick"
    /\ UNCHANGED <<now, cfg, heap, todo, event, next_metric_update, intake,
                   rx_closed, tasks, locks, principal, result>>

\* while let Some(event) = queue.pop()
Pop ==
    /\ pc = "tick"
    /\ \E a \in PopSet(heap, now) :
          /\ event' = a
          /\ heap' = heap (-) SetToBag({a})
    /\ pc' = "fire"
    /\ UNCHANGED <<now, cfg, server, todo, next_metric_update, intake,
                   rx_closed, tasks, locks, principal, result>>

\* queue.pop() is None: the tick ends and the loop waits again
PopNone ==
    /\ pc = "tick"
    /\ PopSet(heap, now) = {}
    /\ server' = NoServer
    /\ pc' = "wait"
    /\ UNCHANGED <<now, cfg, heap, todo, event, next_metric_update, intake,
                   rx_closed, tasks, locks, principal, result>>

Firing(class) == pc = "fire" /\ event.event.class = class

Fired == pc' = "tick" /\ event' = NoAction

\* ActionClass::Acme
FireAcme ==
    /\ Firing("Acme")
    /\ IF event.event.id \in Range(server.providers)
       THEN CanSpawn /\ tasks' = Spawn(tasks, AcmeTask(event.event.id))
       ELSE tasks' = tasks
    /\ Fired
    /\ UNCHANGED <<now, cfg, heap, server, todo, next_metric_update, intake,
                   rx_closed, locks, principal, result>>

\* ActionClass::Account
AccountRearmed(h, srv) ==
    schedule(h, now + time_to_next(srv.account_purge_frequency, now), Account)

FireAccount ==
    /\ Firing("Account")
    /\ CanSpawn
    /\ heap' = AccountRearmed(heap, server)
    /\ tasks' = Spawn(tasks, PurgeTask(PurgeAccount(FALSE), 0))
    /\ Fired
    /\ UNCHANGED <<now, cfg, server, todo, next_metric_update, intake,
                   rx_closed, locks, principal, result>>

\* ActionClass::Store(idx): the PurgeType of a schedule's PurgeStore
PurgeOf(st) ==
    CASE st.type = "Data" -> PurgeData(st.store)
      [] st.type = "Blobs" -> PurgeBlobs(st.store)
      [] st.type = "Lookup" -> PurgeLookup(st.store, FALSE)

HasSchedule(srv, idx) == idx + 1 \in DOMAIN srv.purge_schedules

\* a Store firing that leaves its re-queueing to the purge
StoreRearmed_LeftToPurge(h, srv, idx) == h

StoreRearmed(h, srv, idx) ==
    schedule(h, now + time_to_next(srv.purge_schedules[idx + 1].cron, now), Store(idx))

FireStore ==
    /\ Firing("Store")
    /\ IF HasSchedule(server, event.event.idx)
       THEN /\ CanSpawn
            /\ heap' = StoreRearmed(heap, server, event.event.idx)
            /\ tasks' = Spawn(tasks,
                    PurgeTask(PurgeOf(server.purge_schedules[event.event.idx + 1].store),
                              event.event.idx))
       ELSE UNCHANGED <<heap, tasks, principal, result>>
    /\ Fired
    /\ UNCHANGED <<now, cfg, server, todo, next_metric_update, intake,
                   rx_closed, locks, principal, result>>

\* an OtelMetrics firing that schedules nothing
OtelRearmed_NotScheduled(h, srv) == h

\* ActionClass::OtelMetrics
OtelRearmed(h, srv) == schedule(h, now + srv.otel.interval, OtelMetrics)

FireOtelMetrics ==
    /\ Firing("OtelMetrics")
    /\ IF server.otel.some
       THEN /\ CanSpawn
            /\ heap' = OtelRearmed(heap, server)
            /\ tasks' = Spawn(tasks, OtelTask)
       ELSE UNCHANGED <<heap, tasks, principal, result>>
    /\ Fired
    /\ UNCHANGED <<now, cfg, server, todo, next_metric_update, intake,
                   rx_closed, locks, principal, result>>

\* ActionClass::CalculateMetrics: the queue after lines 329-333
CalcRearmed(h) == schedule(h, now + CALC_METRICS_PERIOD, OtelMetrics)

FireCalculateMetrics ==
    /\ Firing("CalculateMetrics")
    /\ CanSpawn
    /\ heap' = CalcRearmed(heap)
    /\ next_metric_update' = IF now >= next_metric_update
                             THEN now + OTHER_METRICS_PERIOD
                             ELSE next_metric_update
    /\ tasks' = Spawn(tasks, CalcTask(now >= next_metric_update, server))
    /\ Fired
    /\ UNCHANGED <<now, cfg, server, todo, intake, rx_closed, locks,
                   principal, result>>

----------------------------------------------------------------------------
(* The lock service of the lookup store *)

\* a lock of key k is held at the instant t
Held(ls, k, t) == \E l \in ls : l.key = k /\ l.expires > t

\* the locks after try_lock(KV_LOCK_HOUSEKEEPER, k, ttl) answered Ok(true)
Locked(ls, k, ttl) == {l \in ls : l.key # k} \cup {[key |-> k, expires |-> now + ttl]}

\* the locks after remove_lock(KV_LOCK_HOUSEKEEPER, k) answered Ok
Unlocked(ls, k) == {l \in ls : l.key # k}

----------------------------------------------------------------------------
(* Purge::purge for Server *)

\* the bytes of a u32, the least significant first
to_le_bytes(n) == <<n % 256, (n \div 256) % 256, (n \div 65536) % 256,
                    (n \div 16777216) % 256>>

\* u32::to_be_bytes
to_be_bytes(n) == <<(n \div 16777216) % 256, (n \div 65536) % 256,
                    (n \div 256) % 256, n % 256>>

\* a lock name for every purge type
lock_name_ForAll(p, store_idx) ==
    CASE p.type = "Data" -> <<0>> \o to_be_bytes(store_idx)
      [] p.type = "Blobs" -> <<1>> \o to_be_bytes(store_idx)
      [] p.type = "Lookup" -> <<2>> \o to_be_bytes(store_idx)
      [] OTHER -> <<3>> \o to_be_bytes(store_idx)

\* lock_name: <<>> is None
lock_name(p, store_idx) ==
    CASE p.type = "Data" -> <<0>> \o to_be_bytes(store_idx)
      [] p.type = "Blobs" -> <<1>> \o to_be_bytes(store_idx)
      [] p.type = "Lookup" /\ ~p.some -> <<2>> \o to_be_bytes(store_idx)
      [] OTHER -> <<>>

\* the backend operation the purge dispatches to
backend_call(p) ==
    CASE p.type = "Data" -> "purge_store"
      [] p.type = "Blobs" -> "purge_blobs"
      [] p.type = "Lookup" /\ p.some -> "key_delete_prefix"
      [] p.type = "Lookup" /\ ~p.some -> "purge_in_memory_store"
      [] p.type = "Account" /\ p.some -> "purge_account"
      [] p.type = "Account" /\ ~p.some -> "purge_accounts"

IsPurge(t, at) == t.kind = "purge" /\ t.pc = at

\* a purge that goes on when try_lock answered Ok(false)
AfterTryLock_NoReturnOnFalse(t, r) ==
    CASE r \in {"true", "false"} -> [t EXCEPT !.pc = "backend", !.time = now,
                                            !.log = <<"Started">>]
      [] r = "err" -> [t EXCEPT !.pc = "done", !.log = <<"Error">>]

\* a purge that goes on when try_lock answered Err
AfterTryLock_NoReturnOnErr(t, r) ==
    CASE r \in {"true", "err"} -> [t EXCEPT !.pc = "backend", !.time = now,
                                          !.log = <<"Started">>]
      [] r = "false" -> [t EXCEPT !.pc = "done", !.log = <<"InProgress">>]

\* what a purge does once try_lock answered: Ok(true), Ok(false) or Err
AfterTryLock(t, r) ==
    CASE r = "true" -> [t EXCEPT !.pc = "backend", !.time = now,
                                 !.log = <<"Started">>]
      [] r = "false" -> [t EXCEPT !.pc = "done", !.log = <<"InProgress">>]
      [] r = "err" -> [t EXCEPT !.pc = "done", !.log = <<"Error">>]

\* try_lock(..).await of a purge with a lock name
PurgeTryLock(t, err) ==
    /\ IsPurge(t, "begin")
    /\ lock_name(t.purge, t.store_idx) # <<>>
    /\ LET k == lock_name(t.purge, t.store_idx)
           r == IF err THEN "err" ELSE IF Held(locks, k, now) THEN "false" ELSE "true"
       IN  /\ tasks' = Replace(tasks, t, AfterTryLock(t, r))
           /\ locks' = IF r = "true" THEN Locked(locks, k, LOCK_TTL) ELSE locks
    /\ UNCHANGED <<now, cfg, heap, pc, server, todo, event,
                   next_metric_update, intake, rx_closed, principal, result>>

\* a purge with no lock name starts at once
PurgeStart(t) ==
    /\ IsPurge(t, "begin")
    /\ lock_name(t.purge, t.store_idx) = <<>>
    /\ tasks' = Replace(tasks, t, [t EXCEPT !.pc = "backend", !.time = now,
                                            !.log = <<"Started">>])
    /\ UNCHANGED <<now, cfg, heap, pc, server, todo, event,
                   next_metric_update, intake, rx_closed, locks,
                   principal, result>>

\* a purge that returns when its backend call fails
AfterBackend_AbortsOnError(t, err) ==
    IF err
    THEN [t EXCEPT !.pc = "done", !.time = 0,
                   !.log = t.log \o <<backend_call(t.purge), "Error">>]
    ELSE [t EXCEPT !.pc = IF lock_name(t.purge, t.store_idx) # <<>> THEN "unlock" ELSE "done",
                   !.time = IF lock_name(t.purge, t.store_idx) # <<>> THEN @ ELSE 0,
                   !.log = t.log \o <<backend_call(t.purge), "Finished">>]

\* the task once its backend call returned (err: with an error)
AfterBackend(t, err) ==
    [t EXCEPT !.pc = IF lock_name(t.purge, t.store_idx) # <<>> THEN "unlock" ELSE "done",
              !.time = IF lock_name(t.purge, t.store_idx) # <<>> THEN @ ELSE 0,
              !.log = t.log \o <<backend_call(t.purge)>>
                      \o (IF err THEN <<"Error">> ELSE <<>>) \o <<"Finished">>]

\* the backend call of a started purge returns
PurgeBackend(t, err) ==
    /\ IsPurge(t, "backend")
    /\ err => t.purge.type # "Account"
    /\ tasks' = Replace(tasks, t, AfterBackend(t, err))
    /\ UNCHANGED <<now, cfg, heap, pc, server, todo, event,
                   next_metric_update, intake, rx_closed, locks,
                   principal, result>>

\* a purge that ends without the lock being removed
PurgeRemoveLock_KeepsLock(t, err) ==
    /\ IsPurge(t, "unlock")
    /\ tasks' = Replace(tasks, t,
            [t EXCEPT !.pc = "done", !.time = 0,
                      !.log = t.log \o <<"remove_lock">>
                              \o (IF err THEN <<"Error">> ELSE <<>>)])
    /\ UNCHANGED <<now, cfg, heap, pc, server, todo, event,
                   next_metric_update, intake, rx_closed, locks,
                   principal, result>>

\* remove_lock(..).await of a finished purge with a lock name
PurgeRemoveLock(t, err) ==
    /\ IsPurge(t, "unlock")
    /\ tasks' = Replace(tasks, t,
            [t EXCEPT !.pc = "done", !.time = 0,
                      !.log = t.log \o <<"remove_lock">>
                              \o (IF err THEN <<"Error">> ELSE <<>>)])
    /\ locks' = IF err THEN locks
                ELSE Unlocked(locks, lock_name(t.purge, t.store_idx))
    /\ UNCHANGED <<now, cfg, heap, pc, server, todo, event,
                   next_metric_update, intake, rx_closed, principal, result>>

----------------------------------------------------------------------------
(* The other spawned tasks *)

\* housekeeper_tx.send(ev).await.ok() by a task: the event is queued, or the
\* receiver is gone and the send fails at once
CanSend == pc = "stopped" \/ rx_closed \/ Len(intake) < MaxIntake

Sent(q, ev) == IF pc = "stopped" \/ rx_closed THEN q ELSE Append(q, ev)

\* a renewal whose error is retried at once
AfterRenew_NoFallback(t, r) ==
    [t EXCEPT !.pc = "broadcast", !.ok = r.ok, !.renew_at = r.d]

\* server.renew(provider).await answered r
AfterRenew(t, r) ==
    [t EXCEPT !.pc = "broadcast", !.ok = r.ok,
              !.renew_at = IF r.ok THEN r.d ELSE ACME_RETRY]

AcmeRenew(t, r) ==
    /\ t.kind = "acme" /\ t.pc = "renew"
    /\ tasks' = Replace(tasks, t, AfterRenew(t, r))
    /\ UNCHANGED <<now, cfg, heap, pc, server, todo, event,
                   next_metric_update, intake, rx_closed, locks,
                   principal, result>>

\* server.cluster_broadcast(BroadcastEvent::ReloadSettings).await
AcmeBroadcast(t) ==
    /\ t.kind = "acme" /\ t.pc = "broadcast"
    /\ tasks' = Replace(tasks, t, [t EXCEPT !.pc = "send", !.broadcasts = @ + 1])
    /\ UNCHANGED <<now, cfg, heap, pc, server, todo, event,
                   next_metric_update, intake, rx_closed, locks,
                   principal, result>>

\* the renewal task sends AcmeReschedule and ends
AcmeSend(t) ==
    /\ t.kind = "acme" /\ t.pc = "send"
    /\ CanSend
    /\ intake' = Sent(intake, AcmeReschedule(t.provider_id, now + t.renew_at))
    /\ tasks' = tasks (-) SetToBag({t})
    /\ UNCHANGED <<now, cfg, heap, pc, server, todo, event,
                   next_metric_update, rx_closed, locks, principal, result>>

\* the reload task with its first provider done
ReloadNext(ts, t) ==
    IF Tail(t.providers) = <<>> THEN ts (-) SetToBag({t})
    ELSE Replace(ts, t, [t EXCEPT !.pc = "init", !.providers = Tail(@), !.renew_at = 0])

\* server.init_acme(provider).await of the reload task answered r
ReloadInit(t, r) ==
    /\ t.kind = "reload" /\ t.pc = "init"
    /\ tasks' = IF r.ok
                THEN Replace(tasks, t, [t EXCEPT !.pc = "send", !.renew_at = r.d])
                ELSE ReloadNext(tasks, t)
    /\ UNCHANGED <<now, cfg, heap, pc, server, todo, event,
                   next_metric_update, intake, rx_closed, locks,
                   principal, result>>

\* the reload task sends the provider's AcmeReschedule
ReloadResched(t) ==
    /\ t.kind = "reload" /\ t.pc = "send"
    /\ CanSend
    /\ intake' = Sent(intake, AcmeReschedule(Head(t.providers), now + t.renew_at))
    /\ tasks' = ReloadNext(tasks, t)
    /\ UNCHANGED <<now, cfg, heap, pc, server, todo, event,
                   next_metric_update, rx_closed, locks, principal, result>>

\* otel.push_metrics(..).await, and the metrics calculation, end
OtelPush(t) ==
    /\ t.kind = "otel"
    /\ tasks' = tasks (-) SetToBag({t})
    /\ UNCHANGED <<now, cfg, heap, pc, server, todo, event,
                   next_metric_update, intake, rx_closed, locks,
                   principal, result>>

\* what may fail in the metrics calculation: total_accounts, total_domains,
\* the join of the memory probe; each failure is logged and the task goes on
CalcErrors == {"none", "total_accounts", "total_domains", "join"}

CalcRun(t, err) ==
    /\ t.kind = "calc"
    /\ err \in {"total_accounts", "total_domains"} =>
          t.calculate_metrics /\ t.update_other_metrics
    /\ tasks' = tasks (-) SetToBag({t})
    /\ UNCHANGED <<now, cfg, heap, pc, server, todo, event,
                   next_metric_update, intake, rx_closed, locks,
                   principal, result>>

----------------------------------------------------------------------------
(* The environment: the clock, the configuration and the senders of the    *)
(* intake.  The timer branch holds no await, and the return of              *)
(* queue_tx.send reads nothing the environment writes: the environment      *)
(* moves while the scheduler task starts up or waits in its loop.           *)

Suspended == pc \in {"start", "init_acme", "wait"}

\* the clock goes on when the task has returned
Advance ==
    /\ Suspended \/ pc = "stopped"
    /\ now + Quantum <= Horizon
    /\ now' = now + Quantum
    /\ UNCHANGED <<cfg, heap, pc, server, todo, event, next_metric_update,
                   intake, rx_closed, tasks, locks, principal, result>>

\* the configuration is reloaded, once the task has read the one it starts
\* with; the roles of the node stay
Reconfigure ==
    /\ Suspended
    /\ pc # "start"
    /\ cfg' \in {c \in Configs : c.roles = cfg.roles /\ c # cfg}
    /\ UNCHANGED <<now, heap, pc, server, todo, event, next_metric_update,
                   intake, rx_closed, tasks, locks, principal, result>>

ManualPurges == {PurgeData(0)}

Requests == {ReloadSettings, Exit} \cup {Purge(p) : p \in ManualPurges}

\* another part of the server sends an event to the housekeeper
Request(ev) ==
    /\ Suspended
    /\ ~rx_closed
    /\ Len(intake) < MaxIntake
    /\ intake' = Append(intake, ev)
    /\ UNCHANGED <<now, cfg, heap, pc, server, todo, event,
                   next_metric_update, rx_closed, tasks, locks,
                   principal, result>>

\* the last sender of the intake is dropped: no task is left to hold one
CloseIntake ==
    /\ Suspended
    /\ Live(tasks) = EmptyBag
    /\ ~rx_closed
    /\ rx_closed' = TRUE
    /\ UNCHANGED <<now, cfg, heap, pc, server, todo, event,
                   next_metric_update, intake, tasks, locks,
                   principal, result>>

----------------------------------------------------------------------------
(* The housekeeper of one node *)

PurgeStep ==
    \E t \in BagToSet(tasks) :
        \/ \E err \in BOOLEAN : PurgeTryLock(t, err)
        \/ PurgeStart(t)
        \/ \E err \in BOOLEAN : PurgeBackend(t, err)
        \/ \E err \in BOOLEAN : PurgeRemoveLock(t, err)

AcmeStep ==
    \E t \in BagToSet(tasks) :
        \/ \E r \in AcmeResults : AcmeRenew(t, r)
        \/ AcmeBroadcast(t)
        \/ AcmeSend(t)

ReloadStep ==
    \E t \in BagToSet(tasks) :
        \/ \E r \in AcmeResults : ReloadInit(t, r)
        \/ ReloadResched(t)

OtelStep == \E t \in BagToSet(tasks) : OtelPush(t)

CalcStep == \E t \in BagToSet(tasks), err \in CalcErrors : CalcRun(t, err)

TaskStep == AcmeStep \/ ReloadStep \/ OtelStep \/ CalcStep

Scheduler ==
    \/ Seed
    \/ \E r \in AcmeResults : StartupAcme(r)
    \/ EnterLoop
    \/ RecvReloadSettings
    \/ ReloadSend
    \/ RecvAcmeReschedule
    \/ RecvPurge
    \/ RecvExit
    \/ RecvClosed
    \/ Timeout
    \/ Pop
    \/ PopNone
    \/ FireAcme
    \/ FireAccount
    \/ FireStore
    \/ FireOtelMetrics
    \/ FireCalculateMetrics

Environment ==
    \/ Advance
    \/ Reconfigure
    \/ \E ev \in Requests : Request(ev)
    \/ CloseIntake

Next == Scheduler \/ PurgeStep \/ TaskStep \/ Environment

Spec == Init /\ [][Next]_vars

----------------------------------------------------------------------------
(* The purges of a cluster: the housekeepers of the replicas share the     *)
(* lookup store and its locks.  Each replica spawns purges as its          *)
(* scheduler does, for a Store(idx) firing and for a Purge event; tasks    *)
(* holds the purges of all replicas, whichever replica runs them.          *)

\* purges alive at a time
MaxPurges == 2
\* the clock moves by half the lock's TTL, MaxSlumbers times at most
MaxSlumbers == 2

\* core.storage.purge_schedules of the replicas
ClusterSchedules == <<Schedule(2 * Quantum, PurgeStoreBlobs(0)),
                      Schedule(2 * Quantum, PurgeStoreData(1))>>

\* the PurgeTypes of the Purge events sent in the cluster
ClusterPurges == {PurgeData(1), PurgeBlobs(0), PurgeLookup(0, FALSE),
                  PurgeLookup(0, TRUE), PurgeAccount(FALSE)}

PurgeInit ==
    /\ now = 0
    /\ cfg = BareConfig(Roles(TRUE))
    /\ heap = EmptyBag
    /\ pc = "cluster"
    /\ server = NoServer
    /\ todo = <<>>
    /\ event = NoAction
    /\ next_metric_update = 0
    /\ intake = <<>>
    /\ rx_closed = FALSE
    /\ tasks = EmptyBag
    /\ locks = {}
    /\ principal = NoPrincipal
    /\ result = NoResult

CanPurge == BagCardinality(Live(tasks)) < MaxPurges

\* FireStore on a replica: Store(idx) fired
ScheduledPurge(idx) ==
    /\ CanPurge
    /\ tasks' = Spawn(tasks, PurgeTask(PurgeOf(ClusterSchedules[idx + 1].store), idx))
    /\ UNCHANGED <<now, cfg, heap, pc, server, todo, event, next_metric_update,
                   intake, rx_closed, locks, principal, result>>

\* RecvPurge on a replica: Purge(p) handled
ManualPurge(p) ==
    /\ CanPurge
    /\ tasks' = Spawn(tasks, PurgeTask(p, 0))
    /\ UNCHANGED <<now, cfg, heap, pc, server, todo, event, next_metric_update,
                   intake, rx_closed, locks, principal, result>>

\* a purge holds its lock from try_lock to remove_lock
HoldsLock(t) == t.kind = "purge" /\ t.pc \in {"backend", "unlock"}
                /\ lock_name(t.purge, t.store_idx) # <<>>

\* no purge lasts as long as the TTL of its lock: the clock does not move
\* past the TTL of a lock whose purge is not over
Slumber ==
    /\ now < MaxSlumbers * (LOCK_TTL \div 2)
    /\ \A t \in BagToSet(tasks) :
          HoldsLock(t) => now + (LOCK_TTL \div 2) < t.time + LOCK_TTL
    /\ now' = now + (LOCK_TTL \div 2)
    /\ UNCHANGED <<cfg, heap, pc, server, todo, event, next_metric_update,
                   intake, rx_closed, tasks, locks, principal, result>>

PurgeNext ==
    \/ \E idx \in 0..(Len(ClusterSchedules) - 1) : ScheduledPurge(idx)
    \/ \E p \in ClusterPurges : ManualPurge(p)
    \/ PurgeStep
    \/ Slumber

PurgeSpec == PurgeInit /\ [][PurgeNext]_vars

----------------------------------------------------------------------------
(* Two purges of any type and store index, run side by side                *)

\* the PurgeTypes
KeyPurges == {PurgeData(0), PurgeData(1), PurgeBlobs(0), PurgeLookup(0, FALSE),
              PurgeLookup(0, TRUE), PurgeAccount(FALSE), PurgeAccount(TRUE)}

\* store_idx: u32 values that differ in each of the four bytes, up to
\* 2^31 - 1
Indexes == {0, 1, 256, 65536, 16777216, 2147483647}

KeyInit ==
    /\ now = 0
    /\ cfg = BareConfig(Roles(TRUE))
    /\ heap = EmptyBag
    /\ pc = "cluster"
    /\ server = NoServer
    /\ todo = <<>>
    /\ event = NoAction
    /\ next_metric_update = 0
    /\ intake = <<>>
    /\ rx_closed = FALSE
    /\ \E p \in KeyPurges, q \in KeyPurges, i \in Indexes, j \in Indexes :
          tasks = SetToBag({PurgeTask(p, i)}) (+) SetToBag({PurgeTask(q, j)})
    /\ locks = {}
    /\ principal = NoPrincipal
    /\ result = NoResult

KeySpec == KeyInit /\ [][PurgeStep]_vars

----------------------------------------------------------------------------
(* The scheduler started with OTEL not configured *)

\* everything configured but the OTEL push
OtelOffConfig == [FullConfig(Roles(TRUE)) EXCEPT !.otel = NoOtel]

OtelOffInit ==
    /\ now = 0
    /\ cfg = OtelOffConfig
    /\ heap = EmptyBag
    /\ pc = "start"
    /\ server = NoServer
    /\ todo = <<>>
    /\ event = NoAction
    /\ next_metric_update = 0
    /\ intake = <<>>
    /\ rx_closed = FALSE
    /\ tasks = EmptyBag
    /\ locks = {}
    /\ principal = NoPrincipal
    /\ result = NoResult

OtelOffSpec == OtelOffInit /\ [][Next]_vars

----------------------------------------------------------------------------
(* The renewal cycle of one ACME provider, with the scheduling of the      *)
(* runtime: a task that can run does (the scheduler task, the purges and   *)
(* the metrics calculation), and a send that finds room in the intake      *)
(* again and again goes through.  The node purges accounts and renews the  *)
(* certificates of "p"; the other parts of the server only ask it to exit. *)

AcmeConfig == [BareConfig(Roles(TRUE)) EXCEPT !.providers = <<"p">>]

AcmeScheduler ==
    \/ Seed
    \/ \E r \in AcmeResults : StartupAcme(r)
    \/ EnterLoop
    \/ RecvAcmeReschedule
    \/ RecvExit
    \/ RecvClosed
    \/ Timeout
    \/ Pop
    \/ PopNone
    \/ FireAcme
    \/ FireAccount
    \/ FireOtelMetrics
    \/ FireCalculateMetrics

AcmeNext ==
    \/ AcmeScheduler
    \/ PurgeStep
    \/ AcmeStep
    \/ CalcStep
    \/ Advance
    \/ Request(Exit)
    \/ CloseIntake

AcmeInit ==
    /\ now = 0
    /\ cfg = AcmeConfig
    /\ heap = EmptyBag
    /\ pc = "start"
    /\ server = NoServer
    /\ todo = <<>>
    /\ event = NoAction
    /\ next_metric_update = 0
    /\ intake = <<>>
    /\ rx_closed = FALSE
    /\ tasks = EmptyBag
    /\ locks = {}
    /\ principal = NoPrincipal
    /\ result = NoResult

AcmeSpec ==
    /\ AcmeInit
    /\ [][AcmeNext]_vars
    /\ WF_vars(AcmeScheduler)
    /\ WF_vars(PurgeStep)
    /\ WF_vars(CalcStep)
    /\ SF_vars(AcmeStep)

----------------------------------------------------------------------------
(* The node of RenewConfig: ACME renewals and the ReloadSettings events     *)
(* that reload the ACME certificate managers                                *)

RenewScheduler ==
    \/ Seed
    \/ \E r \in AcmeResults : StartupAcme(r)
    \/ EnterLoop
    \/ RecvReloadSettings
    \/ ReloadSend
    \/ RecvAcmeReschedule
    \/ Timeout
    \/ Pop
    \/ PopNone
    \/ FireAcme
    \/ FireOtelMetrics
    \/ FireCalculateMetrics

RenewNext ==
    \/ RenewScheduler
    \/ AcmeStep
    \/ ReloadStep
    \/ CalcStep
    \/ Advance
    \/ Request(ReloadSettings)

RenewInit ==
    /\ now = 0
    /\ cfg = RenewConfig
    /\ heap = EmptyBag
    /\ pc = "start"
    /\ server = NoServer
    /\ todo = <<>>
    /\ event = NoAction
    /\ next_metric_update = 0
    /\ intake = <<>>
    /\ rx_closed = FALSE
    /\ tasks = EmptyBag
    /\ locks = {}
    /\ principal = NoPrincipal
    /\ result = NoResult

RenewSpec == RenewInit /\ [][RenewNext]_vars

----------------------------------------------------------------------------
(* The Queue alone: its operations applied in any order.  pc names the      *)
(* last operation, event holds its arguments (schedule, remove_action,      *)
(* AcmeReschedule) or its result (pop).                                     *)

\* entries of the queue in this specification
MaxQueue == 3

QueueKinds == {Account, Store(0), Acme("p"), OtelMetrics}
QueueDues == {0, Quantum, 2 * Quantum}

QueueInit ==
    /\ now = 0
    /\ cfg = BareConfig(Roles(TRUE))
    /\ heap = EmptyBag
    /\ pc = "queue"
    /\ server = NoServer
    /\ todo = <<>>
    /\ event = NoAction
    /\ next_metric_update = 0
    /\ intake = <<>>
    /\ rx_closed = FALSE
    /\ tasks = EmptyBag
    /\ locks = {}
    /\ principal = NoPrincipal
    /\ result = NoResult

QSchedule(due, ev) ==
    /\ BagCardinality(heap) < MaxQueue
    /\ heap' = schedule(heap, due, ev)
    /\ pc' = "schedule"
    /\ event' = Action(due, ev)
    /\ UNCHANGED <<now, cfg, server, todo, next_metric_update, intake,
                   rx_closed, tasks, locks, principal, result>>

QRemoveAction(ev) ==
    /\ heap' = remove_action(heap, ev)
    /\ pc' = "remove_action"
    /\ event' = Action(0, ev)
    /\ UNCHANGED <<now, cfg, server, todo, next_metric_update, intake,
                   rx_closed, tasks, locks, principal, result>>

\* the handler of AcmeReschedule { provider_id, renew_at }
QAcmeReschedule(id, renew_at) ==
    /\ heap' = Rescheduled(heap, id, renew_at)
    /\ pc' = "reschedule"
    /\ event' = Action(renew_at, Acme(id))
    /\ UNCHANGED <<now, cfg, server, todo, next_metric_update, intake,
                   rx_closed, tasks, locks, principal, result>>

\* queue.pop(): Some(action) or None
QPop ==
    /\ IF PopSet(heap, now) # {}
       THEN \E a \in PopSet(heap, now) :
               /\ event' = a
               /\ heap' = heap (-) SetToBag({a})
       ELSE event' = NoAction /\ heap' = heap
    /\ pc' = "pop"
    /\ UNCHANGED <<now, cfg, server, todo, next_metric_update, intake,
                   rx_closed, tasks, locks, principal, result>>

\* queue.wake_up_time(): the Duration returned is the due of event
QWakeUpTime ==
    /\ pc' = "wake_up_time"
    /\ event' = [NoAction EXCEPT !.due = wake_up_time(heap, now)]
    /\ UNCHANGED <<now, cfg, heap, server, todo, next_metric_update, intake,
                   rx_closed, tasks, locks, principal, result>>

QAdvance ==
    /\ now + Quantum <= Horizon
    /\ now' = now + Quantum
    /\ pc' = "queue"
    /\ event' = NoAction
    /\ UNCHANGED <<cfg, heap, server, todo, next_metric_update, intake,
                   rx_closed, tasks, locks, principal, result>>

QueueNext ==
    \/ \E due \in QueueDues, ev \in QueueKinds : QSchedule(due, ev)
    \/ \E ev \in QueueKinds : QRemoveAction(ev)
    \/ \E due \in QueueDues : QAcmeReschedule("p", due)
    \/ QPop
    \/ QWakeUpTime
    \/ QAdvance

QueueSpec == QueueInit /\ [][QueueNext]_vars

----------------------------------------------------------------------------
(* The PrincipalSet of crates/directory/src/core/principal.rs: the id and  *)
(* the type of a principal and a map from PrincipalField to                *)
(* PrincipalValue.  A String is a TLA+ string of ASCII characters: its     *)
(* len() in bytes is Len.  A PrincipalValue keeps its strings in str and   *)
(* its integers in int, whatever its shape.                                *)

\* a list of a PrincipalSet holds MaxLen elements at most
MaxLen == 2

MAX_STRING_LEN == 512

String(s) == [shape |-> "String", str |-> <<s>>, int |-> <<>>]
StringList(l) == [shape |-> "StringList", str |-> l, int |-> <<>>]
Integer(i) == [shape |-> "Integer", str |-> <<>>, int |-> <<i>>]
IntegerList(l) == [shape |-> "IntegerList", str |-> <<>>, int |-> l]

\* the fields of the model, one of each arm of the deserializer
PrincipalFields == {"Name", "Description", "Quota", "Emails"}

Types == {"Individual", "Group", "Resource", "Location", "Other", "List",
          "Tenant", "Role", "Domain", "ApiKey", "OauthClient"}

\* PrincipalSet::new
new(id, typ) == [id |-> id, typ |-> typ, fields |-> <<>>]

\* PrincipalSet::default(): id 0 and no field
Default == new(0, "Individual")

\* HashMap::insert and HashMap::remove
insert(fields, key, value) ==
    [k \in DOMAIN fields \cup {key} |-> IF k = key THEN value ELSE fields[k]]
remove(fields, key) == [k \in DOMAIN fields \ {key} |-> fields[k]]

\* PrincipalSet::set
set(p, key, value) == [p EXCEPT !.fields = insert(p.fields, key, value)]

\* a string of n characters c
RECURSIVE Repeat(_, _)
Repeat(c, n) ==
    IF n = 0 THEN ""
    ELSE IF n % 2 = 0 THEN LET h == Repeat(c, n \div 2) IN h \o h
    ELSE Repeat(c, n - 1) \o c

\* u64::to_string: the decimal digits
Digit(d) == <<"0", "1", "2", "3", "4", "5", "6", "7", "8", "9">>[d + 1]
RECURSIVE to_string(_)
to_string(i) == IF i < 10 THEN Digit(i) ELSE to_string(i \div 10) \o Digit(i % 10)

contains(l, x) == \E i \in DOMAIN l : l[i] = x

\* a PrincipalSet whose append_str forgets the value on an Integer field
append_str_KeepsInteger(p, key, value) ==
    IF key \in DOMAIN p.fields
    THEN LET v == p.fields[key] IN
         CASE v.shape = "StringList" ->
                IF ~contains(v.str, value)
                THEN set(p, key, StringList(Append(v.str, value)))
                ELSE p
           [] v.shape = "String" ->
                IF v.str[1] # value
                THEN set(p, key, StringList(<<v.str[1], value>>))
                ELSE p
           [] v.shape = "Integer" ->
                set(p, key, StringList(<<to_string(v.int[1])>>))
           [] v.shape = "IntegerList" ->
                set(p, key, StringList(Append([i \in DOMAIN v.int |-> to_string(v.int[i])],
                                              value)))
    ELSE set(p, key, StringList(<<value>>))

\* PrincipalSet::append_str
append_str(p, key, value) ==
    IF key \in DOMAIN p.fields
    THEN LET v == p.fields[key] IN
         CASE v.shape = "StringList" ->
                IF ~contains(v.str, value)
                THEN set(p, key, StringList(Append(v.str, value)))
                ELSE p
           [] v.shape = "String" ->
                IF v.str[1] # value
                THEN set(p, key, StringList(<<v.str[1], value>>))
                ELSE p
           [] v.shape = "Integer" ->
                set(p, key, StringList(<<to_string(v.int[1]), value>>))
           [] v.shape = "IntegerList" ->
                set(p, key, StringList(Append([i \in DOMAIN v.int |-> to_string(v.int[i])],
                                              value)))
    ELSE set(p, key, StringList(<<value>>))

\* PrincipalSet::has_field
has_field(p, key) == key \in DOMAIN p.fields

\* PrincipalSet::has_str_value
has_str_value(p, key, value) ==
    /\ key \in DOMAIN p.fields
    /\ LET v == p.fields[key] IN
       CASE v.shape = "String" -> v.str[1] = value
         [] v.shape = "StringList" -> \E i \in DOMAIN v.str : v.str[i] = value
         [] v.shape \in {"Integer", "IntegerList"} -> FALSE

\* Vec::retain; the predicate f is the set of the values it holds of
retain(l, f) == SelectSeq(l, LAMBDA x : x \in f)

\* a retain_str that leaves the emptied list in its field
retain_str_KeepsEmpty(p, key, f) ==
    IF key \in DOMAIN p.fields
    THEN LET v == p.fields[key] IN
         CASE v.shape = "String" ->
                IF v.str[1] \notin f
                THEN [p EXCEPT !.fields = remove(p.fields, key)]
                ELSE p
           [] v.shape = "StringList" -> set(p, key, StringList(retain(v.str, f)))
           [] OTHER -> p
    ELSE p

\* PrincipalSet::retain_str
retain_str(p, key, f) ==
    IF key \in DOMAIN p.fields
    THEN LET v == p.fields[key] IN
         CASE v.shape = "String" ->
                IF v.str[1] \notin f
                THEN [p EXCEPT !.fields = remove(p.fields, key)]
                ELSE p
           [] v.shape = "StringList" ->
                IF retain(v.str, f) = <<>>
                THEN [p EXCEPT !.fields = remove(p.fields, key)]
                ELSE set(p, key, StringList(retain(v.str, f)))
           [] OTHER -> p
    ELSE p

\* PrincipalSet::retain_int
retain_int(p, key, f) ==
    IF key \in DOMAIN p.fields
    THEN LET v == p.fields[key] IN
         CASE v.shape = "Integer" ->
                IF v.int[1] \notin f
                THEN [p EXCEPT !.fields = remove(p.fields, key)]
                ELSE p
           [] v.shape = "IntegerList" ->
                IF retain(v.int, f) = <<>>
                THEN [p EXCEPT !.fields = remove(p.fields, key)]
                ELSE set(p, key, IntegerList(retain(v.int, f)))
           [] OTHER -> p
    ELSE p

----------------------------------------------------------------------------
(* The JSON form of a PrincipalSet.  A document is the sequence of the     *)
(* entries <<key, value>> of a JSON object; a value is null, a string, a   *)
(* number or an array of strings and numbers.                              *)

JNull == [t |-> "null", s |-> "", n |-> 0, a |-> <<>>]
JString(s) == [t |-> "string", s |-> s, n |-> 0, a |-> <<>>]
JNumber(n) == [t |-> "number", s |-> "", n |-> n, a |-> <<>>]
JArray(a) == [t |-> "array", s |-> "", n |-> 0, a |-> a]
JStrings(l) == JArray([i \in DOMAIN l |-> [t |-> "string", s |-> l[i], n |-> 0]])
JNumbers(l) == JArray([i \in DOMAIN l |-> [t |-> "number", s |-> "", n |-> l[i]]])

\* Type::to_jmap
to_jmap(typ) ==
    CASE typ = "Individual" -> "individual"
      [] typ = "Group" -> "group"
      [] typ = "Resource" -> "resource"
      [] typ = "Location" -> "location"
      [] typ = "Other" -> "other"
      [] typ = "List" -> "list"
      [] typ = "Tenant" -> "tenant"
      [] typ = "Role" -> "role"
      [] typ = "Domain" -> "domain"
      [] typ = "ApiKey" -> "apiKey"
      [] typ = "OauthClient" -> "oauthClient"

None == [some |-> FALSE, v |-> ""]
Some(v) == [some |-> TRUE, v |-> v]

\* Type::parse
parse(value) ==
    CASE value = "individual" -> Some("Individual")
      [] value = "group" -> Some("Group")
      [] value = "resource" -> Some("Resource")
      [] value = "location" -> Some("Location")
      [] value = "list" -> Some("List")
      [] value = "tenant" -> Some("Tenant")
      [] value = "superuser" -> Some("Individual")
      [] value = "role" -> Some("Role")
      [] value = "domain" -> Some("Domain")
      [] value = "apiKey" -> Some("ApiKey")
      [] value = "oauthClient" -> Some("OauthClient")
      [] OTHER -> None

\* PrincipalField::as_str of the fields of the model
as_str(key) ==
    CASE key = "Name" -> "name"
      [] key = "Description" -> "description"
      [] key = "Quota" -> "quota"
      [] key = "Emails" -> "emails"
      [] key = "Type" -> "type"

\* PrincipalField::try_parse
try_parse(k) ==
    IF \E key \in PrincipalFields \cup {"Type"} : as_str(key) = k
    THEN Some(CHOOSE key \in PrincipalFields \cup {"Type"} : as_str(key) = k)
    ELSE None

\* what serialize_entry writes for a PrincipalValue
ValueJson(v) ==
    CASE v.shape = "String" -> JString(v.str[1])
      [] v.shape = "StringList" -> JStrings(v.str)
      [] v.shape = "Integer" -> JNumber(v.int[1])
      [] v.shape = "IntegerList" -> JNumbers(v.int)

\* Serialize for PrincipalSet; order is the order in which the HashMap
\* yields its keys
serialize(p, order) ==
    <<<<"id", JNumber(p.id)>>, <<"type", JString(to_jmap(p.typ))>>>>
        \o [i \in DOMAIN order |-> <<as_str(order[i]), ValueJson(p.fields[order[i]])>>]

\* the orders in which a HashMap may yield the keys ks
Orders(ks) ==
    {o \in [1..Cardinality(ks) -> ks] : \A k \in ks : \E i \in DOMAIN o : o[i] = k}

\* the results of the visitors: a value, nothing to store, or an error
Ok(v) == [ok |-> TRUE, skip |-> FALSE, value |-> v, err |-> ""]
Skip == [ok |-> TRUE, skip |-> TRUE, value |-> String(""), err |-> ""]
Err(msg) == [ok |-> FALSE, skip |-> FALSE, value |-> String(""), err |-> msg]

\* the error of serde for a value of a type the visitor does not take
InvalidType == Err("invalid type")
TooLong == Err("string too long")

\* the elements of an array up to the first one that is not of type t
AllOf(a, t) == \A i \in DOMAIN a : a[i].t = t

\* an array whose strings a StringOrU64 takes
Within(a) == \A i \in DOMAIN a : a[i].t = "string" => Len(a[i].s) <= MAX_STRING_LEN

\* Deserialize for PrincipalValue: visit_none, visit_u64, visit_str,
\* visit_seq over StringOrU64
PrincipalValueVisitor(j) ==
    CASE j.t = "null" -> Ok(String(""))
      [] j.t = "number" -> Ok(Integer(j.n))
      [] j.t = "string" ->
            IF Len(j.s) <= MAX_STRING_LEN THEN Ok(String(j.s)) ELSE TooLong
      [] j.t = "array" ->
            IF ~Within(j.a) THEN TooLong
            ELSE LET vec_u64 == SelectSeq(j.a, LAMBDA e : e.t = "number")
                     vec_string == SelectSeq(j.a, LAMBDA e : e.t = "string")
                 IN  IF vec_u64 # <<>> /\ vec_string # <<>>
                     THEN Err("invalid principal value")
                     ELSE IF vec_u64 # <<>>
                     THEN Ok(IntegerList([i \in DOMAIN vec_u64 |-> vec_u64[i].n]))
                     ELSE Ok(StringList([i \in DOMAIN vec_string |-> vec_string[i].s]))

\* Deserialize for StringOrMany: visit_str, visit_seq over String
StringOrManyVisitor(j) ==
    CASE j.t = "string" ->
            IF Len(j.s) <= MAX_STRING_LEN THEN Ok(StringList(<<j.s>>)) ELSE TooLong
      [] j.t = "array" ->
            IF ~AllOf(j.a, "string") THEN InvalidType
            ELSE IF j.a # <<>>
            THEN Ok(StringList([i \in DOMAIN j.a |-> j.a[i].s]))
            ELSE Skip
      [] OTHER -> InvalidType

\* the arms of visit_map: the value of the field key
FieldValue(key, j) ==
    CASE key = "Name" ->
            IF j.t # "string" THEN InvalidType
            ELSE IF Len(j.s) <= MAX_STRING_LEN THEN Ok(String(j.s)) ELSE TooLong
      [] key = "Description" ->
            IF j.t = "null" THEN Skip
            ELSE IF j.t # "string" THEN InvalidType
            ELSE IF Len(j.s) <= MAX_STRING_LEN THEN Ok(String(j.s)) ELSE TooLong
      [] key = "Quota" -> PrincipalValueVisitor(j)
      [] key = "Emails" -> StringOrManyVisitor(j)

\* visit_map: the entries of doc from the i-th on, read into p
RECURSIVE visit_map(_, _, _)
visit_map(doc, i, p) ==
    IF i > Len(doc) THEN Ok(p)
    ELSE LET k == doc[i][1]
             j == doc[i][2]
             key == try_parse(k)
         IN  IF ~key.some
             THEN IF k = "id"
                  THEN visit_map(doc, i + 1, p)
                  ELSE Err("invalid principal field")
             ELSE IF key.v = "Type"
             THEN IF j.t # "string" THEN InvalidType
                  ELSE IF parse(j.s).some
                  THEN visit_map(doc, i + 1, [p EXCEPT !.typ = parse(j.s).v])
                  ELSE Err("invalid principal type")
             ELSE LET r == FieldValue(key.v, j)
                  IN  IF ~r.ok THEN r
                      ELSE IF r.skip THEN visit_map(doc, i + 1, p)
                      ELSE visit_map(doc, i + 1, set(p, key.v, r.value))

\* Deserialize for PrincipalSet
deserialize(doc) == visit_map(doc, 1, Default)

----------------------------------------------------------------------------
(* A PrincipalSet under the calls of its API, in any order.  result names  *)
(* the last call, its arguments, the shape the field had before it (was)   *)
(* and what it returned: the document of serialize, the error of           *)
(* deserialize.                                                            *)

Result(op, key) ==
    [op |-> op, key |-> key, was |-> "", value |-> "", strs |-> {},
     ints |-> {}, doc |-> <<>>, err |-> ""]

\* the shape of a field, "Vacant" when the map has no such key
Shape(p, key) == IF key \in DOMAIN p.fields THEN p.fields[key].shape ELSE "Vacant"

Ids == {0, 7}
PrincipalTypes == {"Group", "Other"}

\* the fields the callers set, append to and retain
Keys == {"Quota", "Emails"}

Long == Repeat("x", MAX_STRING_LEN + 1)
Longest == Repeat("x", MAX_STRING_LEN)

\* the strings and the integers of the calls
StrValues == {"a", "7"}
IntValues == {0, 7}
StrPredicates == {{}, {"a"}}
IntPredicates == {{}, {7}}

\* the values a caller sets
SetValues ==
    {String("a"), String(Long), Integer(7), StringList(<<>>),
     IntegerList(<<0, 7>>)}

Object(typ, entries) == <<<<"type", JString(typ)>>>> \o entries

\* the documents a client of the directory API sends
Documents ==
    {<<<<"id", JNumber(7)>>, <<"type", JString("group")>>,
       <<"name", JString("a")>>, <<"emails", JString("a")>>>>,
     Object("group", <<<<"name", JString(Longest)>>>>),
     Object("group", <<<<"name", JString(Long)>>>>),
     Object("group", <<<<"description", JString(Long)>>>>),
     Object("group", <<<<"emails", JString(Long)>>>>),
     Object("group", <<<<"emails", JStrings(<<"a", Long>>)>>>>),
     Object("group", <<<<"quota", JString(Long)>>>>),
     Object("group", <<<<"quota", JStrings(<<"a", Long>>)>>>>),
     Object("group", <<<<"quota", JNumber(7)>>>>),
     Object("superuser", <<<<"description", JNull>>, <<"emails", JArray(<<>>)>>>>),
     Object("other", <<>>),
     <<<<"bogus", JNumber(7)>>>>}

PrincipalInit ==
    /\ now = 0
    /\ cfg = BareConfig(Roles(TRUE))
    /\ heap = EmptyBag
    /\ pc = "principal"
    /\ server = NoServer
    /\ todo = <<>>
    /\ event = NoAction
    /\ next_metric_update = 0
    /\ intake = <<>>
    /\ rx_closed = FALSE
    /\ tasks = EmptyBag
    /\ locks = {}
    /\ principal \in {new(id, typ) : id \in Ids, typ \in PrincipalTypes}
    /\ result = NoResult

Housekeeper ==
    UNCHANGED <<now, cfg, heap, pc, server, todo, event, next_metric_update,
                intake, rx_closed, tasks, locks>>

PSet(key, value) ==
    /\ principal' = set(principal, key, value)
    /\ result' = [Result("set", key) EXCEPT !.was = Shape(principal, key)]
    /\ Housekeeper

PAppendStr(key, value) ==
    /\ Len(append_str(principal, key, value).fields[key].str) <= MaxLen
    /\ principal' = append_str(principal, key, value)
    /\ result' = [Result("append_str", key) EXCEPT !.was = Shape(principal, key),
                                                   !.value = value]
    /\ Housekeeper

PRetainStr(key, f) ==
    /\ principal' = retain_str(principal, key, f)
    /\ result' = [Result("retain_str", key) EXCEPT !.was = Shape(principal, key),
                                                   !.strs = f]
    /\ Housekeeper

PRetainInt(key, f) ==
    /\ principal' = retain_int(principal, key, f)
    /\ result' = [Result("retain_int", key) EXCEPT !.was = Shape(principal, key),
                                                   !.ints = f]
    /\ Housekeeper

PSerialize(order) ==
    /\ principal' = principal
    /\ result' = [Result("serialize", "") EXCEPT !.doc = serialize(principal, order)]
    /\ Housekeeper

\* deserialize reads a document of a client or the document serialize wrote
PDeserialize(doc) ==
    /\ LET r == deserialize(doc)
       IN  /\ principal' = IF r.ok THEN r.value ELSE principal
           /\ result' = [Result("deserialize", "") EXCEPT !.doc = doc, !.err = r.err]
    /\ Housekeeper

PrincipalNext ==
    \/ \E key \in Keys, value \in SetValues : PSet(key, value)
    \/ \E key \in Keys, value \in StrValues : PAppendStr(key, value)
    \/ \E key \in Keys, f \in StrPredicates : PRetainStr(key, f)
    \/ \E key \in Keys, f \in IntPredicates : PRetainInt(key, f)
    \/ \E order \in Orders(DOMAIN principal.fields) : PSerialize(order)
    \/ \E doc \in Documents \cup (IF result.op = "serialize" THEN {result.doc} ELSE {}) :
          PDeserialize(doc)

PrincipalSpec == PrincipalInit /\ [][PrincipalNext]_vars

----------------------------------------------------------------------------
(* Properties of the Queue's contents *)

\* C1: in every reachable state of the scheduler the queue holds at most one
\* entry of each ActionClass value (Account, Store(i), Acme(id), OtelMetrics,
\* CalculateMetrics)
C1_OneEntryPerClass ==
    \A a \in BagToSet(heap) : CountOf(heap, a.event) = 1

----------------------------------------------------------------------------
(* Properties of Purge::purge, under PurgeSpec *)

\* the purges that are in their backend call under a lock
Purging(t) == IsPurge(t, "backend") /\ lock_name(t.purge, t.store_idx) # <<>>

\* C2: no two purges of the same lock key (Data, Blobs, Lookup with no
\* prefix, of one store index) are in their backend call at the same time,
\* no purge lasting as long as the TTL of the lock; the purge that took the
\* lock emits Started, calls the backend and emits Finished, the purge that
\* was refused it emits InProgress and nothing else
C2_OnePurgePerLock ==
    /\ \A t, u \in BagToSet(tasks) :
          Purging(t) /\ Purging(u)
            /\ lock_name(t.purge, t.store_idx) = lock_name(u.purge, u.store_idx)
          => t = u /\ CopiesIn(t, tasks) = 1
    /\ \A t \in BagToSet(tasks) :
          t.kind = "purge" /\ lock_name(t.purge, t.store_idx) # <<>> =>
            \/ t.pc = "begin" /\ t.log = <<>>
            \/ t.pc = "backend" /\ t.log = <<"Started">>
            \/ /\ t.pc \in {"unlock", "done"}
               /\ Len(t.log) >= 3
               /\ t.log[1] = "Started"
               /\ t.log[2] = backend_call(t.purge)
               /\ \E i \in 3..Len(t.log) : t.log[i] = "Finished"
            \/ t.pc = "done" /\ t.log = <<"InProgress">>
            \/ t.pc = "done" /\ t.log = <<"Error">>

\* a purge is in its backend call and a purge of the same lock key was
\* refused the lock
C2_Witness ==
    \E t, u \in BagToSet(tasks) :
        /\ Purging(t)
        /\ IsPurge(u, "done") /\ u.log = <<"InProgress">>
        /\ lock_name(t.purge, t.store_idx) = lock_name(u.purge, u.store_idx)

\* C3: a purge whose try_lock answers false or fails ends there: no backend
\* call, neither Started nor Finished, no remove_lock (the locks are as they
\* were); it emits InProgress when the answer was false, which is when the
\* lock is held.  A purge that goes on has taken the lock.
C3_NoLockNoPurge ==
    [][\A t \in BagToSet(tasks) :
          (/\ IsPurge(t, "begin")
           /\ lock_name(t.purge, t.store_idx) # <<>>
           /\ CopiesIn(t, tasks') < CopiesIn(t, tasks))
          => \E u \in BagToSet(tasks') :
               /\ CopiesIn(u, tasks') > CopiesIn(u, tasks)
               /\ u.purge = t.purge /\ u.store_idx = t.store_idx
               /\ LET k == lock_name(t.purge, t.store_idx)
                  IN  IF Held(locks, k, now) \/ ~Held(locks', k, now)
                      THEN /\ u.pc = "done"
                           /\ u.log \in {<<"InProgress">>, <<"Error">>}
                           /\ u.log = <<"InProgress">> => Held(locks, k, now)
                           /\ locks' = locks
                      ELSE /\ u.pc = "backend"
                           /\ u.log = <<"Started">>]_vars

\* a purge ended on a failed try_lock
C3_Witness ==
    \E t \in BagToSet(tasks) :
        /\ IsPurge(t, "done") /\ t.log = <<"Error">>
        /\ lock_name(t.purge, t.store_idx) # <<>>

----------------------------------------------------------------------------
(* Properties of the scheduler's handlers *)

\* C4: the scheduler having started with OTEL not configured, the queue
\* holds exactly one OtelMetrics entry once a ReloadSettings is handled with
\* OTEL configured, the first as the next ones, and the entry the handler
\* schedules is due at the handling time plus otel.interval
C4_ReloadSchedulesOtel ==
    [][(/\ Receiving
        /\ Head(intake).type = "ReloadSettings"
        /\ pc' = "reload_send"
        /\ cfg.otel.some)
       => /\ CountOf(heap', OtelMetrics) = 1
          /\ ~has_action(heap, OtelMetrics)
               => Action(now + cfg.otel.interval, OtelMetrics) \in BagToSet(heap')]_vars

\* C6: whenever CalculateMetrics fires, the queue then holds a
\* CalculateMetrics entry due 5 minutes after the firing
C6_CalculateMetricsRearmed ==
    [][Firing("CalculateMetrics") /\ pc' = "tick"
       => Action(now + CALC_METRICS_PERIOD, CalculateMetrics) \in BagToSet(heap')]_vars

\* C5: the startup seeds the queue, each entry once and nothing else, with
\* Account iff the role purge_accounts is enabled, Store(i) of every purge
\* schedule i iff purge_stores is, OtelMetrics due at now + otel.interval iff
\* push_metrics is and OTEL is configured, CalculateMetrics due at the
\* startup in any case, and then Acme(p) due at now + the duration init_acme
\* answered for the providers p whose init_acme succeeded, iff renew_acme is
\* enabled; the loop is entered with this queue
C5_StartupSeeds ==
    [][/\ (pc = "start" /\ pc' # "start") =>
            heap' = SetToBag(
                {Action(now, CalculateMetrics)}
                \cup {Action(now + time_to_next(cfg.account_purge_frequency, now), Account) :
                        r \in {x \in {cfg.roles} : x.purge_accounts}}
                \cup {Action(now + time_to_next(cfg.purge_schedules[i].cron, now), Store(i - 1)) :
                        i \in {j \in DOMAIN cfg.purge_schedules : cfg.roles.purge_stores}}
                \cup {Action(now + cfg.otel.interval, OtelMetrics) :
                        r \in {x \in {cfg.roles} : x.push_metrics /\ cfg.otel.some}})
       /\ (pc = "init_acme" /\ pc' = "init_acme") =>
            IF todo' # todo
            THEN /\ server.roles.renew_acme
                 /\ Head(todo) \in Range(server.providers)
                 /\ ~has_action(heap, Acme(Head(todo)))
                 /\ \/ heap' = heap
                    \/ \E r \in AcmeResults :
                          /\ r.ok
                          /\ heap' = heap (+) SetToBag({Action(now + r.d, Acme(Head(todo)))})
            ELSE heap' = heap
       /\ (pc = "init_acme" /\ pc' = "wait") =>
            /\ heap' = heap
            /\ todo = <<>>
            /\ \A a \in BagToSet(heap) : CountOf(heap, a.event) = 1
            /\ \A a \in BagToSet(heap) :
                  a.event.class = "Acme" =>
                     server.roles.renew_acme /\ a.event.id \in Range(server.providers)
            /\ {a.event : a \in BagToSet(heap)} \ {Acme(p) : p \in Range(server.providers)}
                 = {CalculateMetrics}
                   \cup {Account : r \in {x \in {server.roles} : x.purge_accounts}}
                   \cup {Store(i - 1) :
                           i \in {j \in DOMAIN server.purge_schedules : server.roles.purge_stores}}
                   \cup {OtelMetrics :
                           r \in {x \in {server.roles} : x.push_metrics /\ server.otel.some}}]_vars

\* the loop is entered, no tick yet, with the five kinds of entries queued
C5_Witness ==
    /\ pc = "wait"
    /\ BagCardinality(heap) = 5
    /\ CopiesIn(Action(0, CalculateMetrics), heap) = 1
    /\ has_action(heap, Account)
    /\ has_action(heap, Store(0))
    /\ has_action(heap, OtelMetrics)
    /\ has_action(heap, Acme("p"))

\* one more task of the bag is the task t
Spawned(t) == CopiesIn(t, tasks') = CopiesIn(t, tasks) + 1

\* C7 as the code has it: an Account firing, a Store(i) firing whose schedule
\* i is in the configuration the tick reads, and an OtelMetrics firing while
\* OTEL is configured queue the same kind at the firing time plus its period
\* (account_purge_frequency, schedule[i].cron, otel.interval) and spawn the
\* work task; a Store(i) or OtelMetrics firing whose configuration is gone
\* queues nothing and spawns nothing
C7_RearmedIfConfigured ==
    [][/\ (Firing("Account") /\ pc' = "tick") =>
            /\ CopiesIn(Action(now + time_to_next(server.account_purge_frequency, now),
                               Account), heap') >= 1
            /\ Spawned(PurgeTask(PurgeAccount(FALSE), 0))
       /\ (Firing("Store") /\ pc' = "tick") =>
            IF event.event.idx + 1 \in DOMAIN server.purge_schedules
            THEN LET s == server.purge_schedules[event.event.idx + 1]
                 IN  /\ CopiesIn(Action(now + time_to_next(s.cron, now), event.event),
                                 heap') >= 1
                     /\ Spawned(PurgeTask([type |-> s.store.type, store |-> s.store.store,
                                           some |-> FALSE], event.event.idx))
            ELSE heap' = heap /\ tasks' = tasks
       /\ (Firing("OtelMetrics") /\ pc' = "tick") =>
            IF server.otel.some
            THEN /\ CopiesIn(Action(now + server.otel.interval, OtelMetrics), heap') >= 1
                 /\ Spawned(OtelTask)
            ELSE heap' = heap /\ tasks' = tasks]_vars

\* a Store(0) firing has queued Store(0) again and spawned its purge
C7_Witness ==
    /\ pc = "tick"
    /\ \E a \in BagToSet(heap) : a.event = Store(0) /\ a.due > now
    /\ CopiesIn(PurgeTask(PurgeData(0), 0), tasks) = 1
    /\ now > 0

\* C7 as claimed: whenever Account, Store(i) or OtelMetrics fires, the queue
\* then holds the same kind due at the firing time plus its period, and the
\* work task has been spawned
C7_AlwaysRearmed ==
    [][/\ (Firing("Account") /\ pc' = "tick") =>
            /\ CopiesIn(Action(now + time_to_next(server.account_purge_frequency, now),
                               Account), heap') >= 1
            /\ Spawned(PurgeTask(PurgeAccount(FALSE), 0))
       /\ (Firing("Store") /\ pc' = "tick") =>
            /\ event.event.idx + 1 \in DOMAIN server.purge_schedules
            /\ LET s == server.purge_schedules[event.event.idx + 1]
               IN  /\ CopiesIn(Action(now + time_to_next(s.cron, now), event.event),
                               heap') >= 1
                   /\ Spawned(PurgeTask([type |-> s.store.type, store |-> s.store.store,
                                         some |-> FALSE], event.event.idx))
       /\ (Firing("OtelMetrics") /\ pc' = "tick") =>
            /\ server.otel.some
            /\ CopiesIn(Action(now + server.otel.interval, OtelMetrics), heap') >= 1
            /\ Spawned(OtelTask)]_vars

\* C8: an Acme(id) firing for a provider of the configuration spawns one
\* renewal task; the task puts one AcmeReschedule { id, renew_at } on the
\* intake, renew_at being the sending time plus the duration renew answered,
\* or plus 3600 s when renew failed; once the scheduler handles it Acme(id)
\* is queued once, due at renew_at, and the scheduler goes on waiting.
\* Under the scheduling of AcmeSpec a renewal task does get its event onto
\* the intake, and the event does get handled, unless the scheduler was told
\* to exit.
C8_AcmeRescheduled ==
    /\ [][/\ (Firing("Acme") /\ pc' = "tick" /\ event.event.id \in Range(server.providers)) =>
               /\ Spawned(AcmeTask(event.event.id))
               /\ heap' = heap
          /\ \A t \in BagToSet(tasks) :
               (t.kind = "acme" /\ CopiesIn(t, tasks') < CopiesIn(t, tasks)) =>
                  CASE t.pc = "renew" ->
                         \E u \in BagToSet(tasks') :
                            /\ Spawned(u)
                            /\ u.kind = "acme" /\ u.provider_id = t.provider_id
                            /\ u.pc = "broadcast"
                            /\ IF u.ok
                               THEN \E r \in AcmeResults : r.ok /\ u.renew_at = r.d
                               ELSE u.renew_at = 3600
                    [] t.pc = "broadcast" ->
                         /\ intake' = intake
                         /\ \E u \in BagToSet(tasks') :
                               Spawned(u) /\ u = [t EXCEPT !.pc = "send", !.broadcasts = 1]
                    [] t.pc = "send" ->
                         /\ BagCardinality(tasks') = BagCardinality(tasks) - 1
                         /\ IF pc = "stopped"
                            THEN intake' = intake
                            ELSE intake' = Append(intake,
                                     [type |-> "AcmeReschedule", provider_id |-> t.provider_id,
                                      renew_at |-> now + t.renew_at])
          /\ (/\ pc = "wait" /\ intake # <<>> /\ Head(intake).type = "AcmeReschedule"
              /\ intake' = Tail(intake)) =>
               /\ pc' = "wait"
               /\ CountOf(heap', Acme(Head(intake).provider_id)) = 1
               /\ CopiesIn(Action(Head(intake).renew_at, Acme(Head(intake).provider_id)),
                           heap') = 1]_vars
    /\ ((\E t \in BagToSet(tasks) : t.kind = "acme")
          ~> (pc = "stopped" \/ \E e \in Range(intake) : e.type = "AcmeReschedule"))
    /\ ((\E e \in Range(intake) : e.type = "AcmeReschedule")
          ~> (pc = "stopped" \/ (pc = "wait" /\ has_action(heap, Acme("p")))))

\* a renewal failed and Acme("p") is queued again, an hour after the failure
C8_Witness ==
    /\ pc = "wait"
    /\ tasks = EmptyBag
    /\ \E a \in BagToSet(heap) : a.event = Acme("p") /\ a.due >= 3600

----------------------------------------------------------------------------
(* Properties of the Queue's operations, under QueueSpec *)

\* C9: after remove_action(k) and schedule(t, k), as after the handling of
\* AcmeReschedule { id, renew_at }, the queue holds exactly one entry of the
\* kind k, due at t, whatever it held of that kind before, and its entries
\* of every other kind are the same
C9_RemoveThenSchedule ==
    [][/\ pc' = "reschedule" =>
            /\ CountOf(heap', event'.event) = 1
            /\ CopiesIn(event', heap') = 1
            /\ \A a \in BagToSet(heap) \cup BagToSet(heap') :
                  a.event # event'.event => CopiesIn(a, heap') = CopiesIn(a, heap)
       /\ (pc = "remove_action" /\ pc' = "schedule" /\ event'.event = event.event) =>
            /\ CountOf(heap', event.event) = 1
            /\ CopiesIn(event', heap') = 1]_vars

\* Acme("p") was rescheduled in a queue that holds two entries of one kind
C9_Witness ==
    /\ pc = "reschedule"
    /\ CountOf(heap, Acme("p")) = 1
    /\ \E k \in QueueKinds : CountOf(heap, k) = 2

\* C10: pop() returns an entry iff the queue is not empty and its smallest
\* due is at most now; the entry returned has the smallest due and is the
\* one removed; a pop that returns nothing leaves the queue as it was; the
\* dues of successive pops do not decrease
C10_PopSmallestDue ==
    [][pc' = "pop" =>
         /\ event' # NoAction <=>
               \E a \in BagToSet(heap) :
                  a.due <= now /\ \A b \in BagToSet(heap) : a.due <= b.due
         /\ event' # NoAction =>
               /\ CopiesIn(event', heap) >= 1
               /\ \A b \in BagToSet(heap) : event'.due <= b.due
               /\ heap' = heap (-) SetToBag({event'})
         /\ event' = NoAction => heap' = heap
         /\ (pc = "pop" /\ event # NoAction /\ event' # NoAction) =>
               event.due <= event'.due]_vars

\* a pop returned an entry although a later one was queued, and one more
\* entry is due
C10_Witness ==
    /\ pc = "pop"
    /\ event # NoAction
    /\ \E a, b \in BagToSet(heap) : a.due <= now /\ b.due > now

\* C11: wake_up_time() returns the earliest due instant minus now, and zero
\* when that instant is not after now, for a queue that is not empty, and
\* LONG_1D_SLUMBER for an empty queue; it is never negative
C11_WakeUpTime ==
    pc = "wake_up_time" =>
        /\ event.due >= 0
        /\ heap = EmptyBag => event.due = LONG_1D_SLUMBER
        /\ heap # EmptyBag =>
              \E a \in BagToSet(heap) :
                 /\ \A b \in BagToSet(heap) : a.due <= b.due
                 /\ event.due = IF a.due >= now THEN a.due - now ELSE 0

\* wake_up_time() was asked with the earliest due instant in the past
C11_Witness ==
    /\ pc = "wake_up_time"
    /\ event.due = 0
    /\ \E a \in BagToSet(heap) : a.due < now

----------------------------------------------------------------------------
(* Properties of the scheduler's end *)

\* C12: the scheduler stops when it handles Exit and when it finds the
\* intake closed, and for nothing else; it stops once and for good: from then
\* on it fires and schedules nothing, spawns nothing and reads no event,
\* whatever is left in the queue and on the intake
C12_StopsForGood ==
    [][/\ (pc = "wait" /\ intake # <<>> /\ Head(intake).type = "Exit"
             /\ intake' = Tail(intake)) => pc' = "stopped"
       /\ (pc = "wait" /\ intake = <<>> /\ rx_closed) =>
             pc' \in {"wait", "stopped"} /\ heap' = heap
       /\ (pc # "stopped" /\ pc' = "stopped") =>
             /\ pc = "wait"
             /\ IF intake # <<>> THEN Head(intake).type = "Exit" ELSE rx_closed
             /\ heap' = heap /\ tasks' = tasks
       /\ pc = "stopped" =>
             /\ pc' = "stopped"
             /\ heap' = heap /\ intake' = intake /\ event' = event
             /\ BagCardinality(tasks') <= BagCardinality(tasks)]_vars

\* the scheduler has stopped with an action left in the queue that is due
C12_Witness ==
    /\ pc = "stopped"
    /\ \E a \in BagToSet(heap) : a.due < now

\* a backend call returns, a remove_lock call returns
BackendStep == \E t \in BagToSet(tasks), err \in BOOLEAN : PurgeBackend(t, err)
UnlockStep == \E t \in BagToSet(tasks), err \in BOOLEAN : PurgeRemoveLock(t, err)

\* the tasks run whatever the scheduler does: a purge that can take a step
\* does take one, and a call that a purge awaits returns, whatever the other
\* purges do
ExitSpec ==
    Spec /\ WF_vars(PurgeStep) /\ WF_vars(BackendStep) /\ WF_vars(UnlockStep)

C14_ErrorsStayLocal ==
    [][/\ (tasks' # tasks
             /\ BagCardinality(Live(tasks')) <= BagCardinality(Live(tasks))) =>
             pc' = pc /\ heap' = heap
       /\ (pc = "init_acme" /\ todo' # todo) =>
             /\ pc' = "init_acme"
             /\ \A a \in BagToSet(heap) \cup BagToSet(heap') :
                   a.event # Acme(Head(todo)) => CopiesIn(a, heap') = CopiesIn(a, heap)
       /\ (pc = "wait" /\ intake # <<>> /\ Head(intake).type = "AcmeReschedule"
             /\ intake' = Tail(intake)) =>
             /\ pc' = "wait"
             /\ \A a \in BagToSet(heap) \cup BagToSet(heap') :
                   a.event # Acme(Head(intake).provider_id) =>
                      CopiesIn(a, heap') = CopiesIn(a, heap)
       /\ (pc # "stopped" /\ pc' = "stopped") =>
             \/ intake # <<>> /\ Head(intake).type = "Exit"
             \/ intake = <<>> /\ rx_closed]_vars

\* a purge has failed, a renewal has failed and was rescheduled an hour
\* later, and the scheduler waits with its queue
C14_Witness ==
    /\ pc = "wait"
    /\ \E t \in BagToSet(tasks) :
          t.kind = "purge" /\ \E i \in DOMAIN t.log : t.log[i] = "Error"
    /\ \E a \in BagToSet(heap) : a.event.class = "Acme" /\ a.due >= ACME_RETRY
    /\ \E a \in BagToSet(heap) : a.event.class # "Acme"

\* C15: whenever the scheduler waits in its loop (after the startup, after a
\* ReloadSettings, after a firing) the queue holds no entry of a kind whose
\* role is disabled or whose configuration is absent: no OtelMetrics without
\* role push_metrics and an OTEL configuration, no Acme without role
\* renew_acme, no Account without role purge_accounts, no Store without role
\* purge_stores.  The roles of a run are those of its configuration; an
\* OtelMetrics entry is queued only while OTEL is configured
C15_DisabledNotQueued ==
    /\ [](pc = "wait" =>
            \A a \in BagToSet(heap) :
                /\ a.event.class = "OtelMetrics" => cfg.roles.push_metrics
                /\ a.event.class = "Acme" => cfg.roles.renew_acme
                /\ a.event.class = "Account" => cfg.roles.purge_accounts
                /\ a.event.class = "Store" => cfg.roles.purge_stores)
    /\ [][\A a \in BagToSet(heap') :
             (a.event.class = "OtelMetrics"
                /\ CopiesIn(a, heap') > CopiesIn(a, heap)) => cfg.otel.some]_vars

\* the period of a recurring kind under the configuration srv
Period(srv, ev) ==
    CASE ev.class = "Account" -> srv.account_purge_frequency
      [] ev.class = "Store" -> srv.purge_schedules[ev.idx + 1].cron
      [] ev.class = "OtelMetrics" -> srv.otel.interval
      [] ev.class = "CalculateMetrics" -> CALC_METRICS_PERIOD

\* the firing of ev under srv starts its work (a Store without its schedule
\* and an OtelMetrics without its configuration are dropped)
Starts(srv, ev) ==
    CASE ev.class = "Account" -> TRUE
      [] ev.class = "Store" -> HasSchedule(srv, ev.idx)
      [] ev.class = "OtelMetrics" -> srv.otel.some
      [] ev.class = "CalculateMetrics" -> TRUE
      [] OTHER -> FALSE

\* C16: a recurring kind starts at most once within its period.  The
\* entries of a kind are never removed and every entry fires when it is due:
\* a kind that starts while the queue holds another entry of that kind due
\* before one period has passed starts a second time within that period (at
\* the same instant, in the same tick, when that entry is due already).  So
\* when a kind starts, every other queued entry of the kind is due at least
\* one period later
C16_OncePerPeriod ==
    (pc = "fire" /\ Starts(server, event.event)) =>
        \A a \in BagToSet(heap) :
            a.event = event.event => a.due >= now + Period(server, event.event)

\* C17 as stated: after a retain_str with a predicate that is always false,
\* and after a retain_int with such a predicate, the field is gone,
\* whatever shape it had
C17_RetainRemoves ==
    [][/\ (result'.op = "retain_str" /\ result'.strs = {}) =>
             ~has_field(principal', result'.key)
       /\ (result'.op = "retain_int" /\ result'.ints = {}) =>
             ~has_field(principal', result'.key)]_vars

\* C17: a retain_str with a predicate that is always false removes a field
\* that holds a String or a StringList and leaves an Integer or an
\* IntegerList as it is; a retain_int with such a predicate removes an
\* Integer or an IntegerList and leaves a String or a StringList as it is;
\* neither touches another field; after the one and then the other the
\* field is gone, whatever shape it had
C17_RetainRemovesItsShapes ==
    /\ [][/\ (result'.op = "retain_str" /\ result'.strs = {}) =>
                IF result'.was \in {"Integer", "IntegerList"}
                THEN principal' = principal
                ELSE /\ ~has_field(principal', result'.key)
                     /\ principal' = [principal EXCEPT
                            !.fields = remove(principal.fields, result'.key)]
          /\ (result'.op = "retain_int" /\ result'.ints = {}) =>
                IF result'.was \in {"String", "StringList"}
                THEN principal' = principal
                ELSE /\ ~has_field(principal', result'.key)
                     /\ principal' = [principal EXCEPT
                            !.fields = remove(principal.fields, result'.key)]]_vars
    /\ [](\A key \in PrincipalFields :
            /\ ~has_field(retain_int(retain_str(principal, key, {}), key, {}), key)
            /\ ~has_field(retain_str(retain_int(principal, key, {}), key, {}), key))

\* a retain_str that was always false has emptied a StringList and removed
\* its field
C17_Witness ==
    /\ result.op = "retain_str"
    /\ result.strs = {}
    /\ result.was = "StringList"
    /\ ~has_field(principal, result.key)

\* C18: a deserialized PrincipalSet holds no string of more than 512 bytes,
\* and a document with such a string in a field the deserializer stores,
\* alone or in an array, is rejected; "string too long" is the error when
\* the document has no other defect
C18_NoLongString ==
    [][result'.op = "deserialize" =>
          /\ result'.err = "" =>
                \A key \in DOMAIN principal'.fields :
                   \A i \in DOMAIN principal'.fields[key].str :
                      Len(principal'.fields[key].str[i]) <= MAX_STRING_LEN
          /\ (\E i \in DOMAIN result'.doc :
                 /\ try_parse(result'.doc[i][1]).some
                 /\ try_parse(result'.doc[i][1]).v \in PrincipalFields
                 /\ \/ Len(result'.doc[i][2].s) > MAX_STRING_LEN
                    \/ \E e \in DOMAIN result'.doc[i][2].a :
                          Len(result'.doc[i][2].a[e].s) > MAX_STRING_LEN) =>
                result'.err # ""]_vars

\* every field of p holds a value the deserializer takes for that field
FieldsAccepted(p) ==
    \A key \in DOMAIN p.fields :
        LET r == FieldValue(key, ValueJson(p.fields[key])) IN r.ok /\ ~r.skip

\* C19: the document serialize writes for a PrincipalSet whose fields the
\* deserializer accepts is read back by deserialize as that PrincipalSet:
\* the same id, the same typ, the same fields with the same shapes
C19_RoundTrip ==
    [][(/\ result.op = "serialize"
        /\ result'.op = "deserialize"
        /\ result'.doc = result.doc
        /\ FieldsAccepted(principal)) =>
          result'.err = "" /\ principal' = principal]_vars

\* C20: after append_str(F, v) the field F has the string v, whatever F
\* held before
C20_AppendedIsThere ==
    [][result'.op = "append_str" =>
          has_str_value(principal', result'.key, result'.value)]_vars

\* a string was appended to a field that held an Integer, and is there
C20_Witness ==
    /\ result.op = "append_str"
    /\ result.was = "Integer"
    /\ has_str_value(principal, result.key, result.value)
    /\ Len(principal.fields[result.key].str) = 2

\* the observable steps of a purge up to Finished: with and without the
\* error of its backend call
Ran(t) == {<<"Started", backend_call(t.purge), "Finished">>,
           <<"Started", backend_call(t.purge), "Error", "Finished">>}

\* the steps of a purge that passed the lock step come in their order
InOrder(t) ==
    /\ t.pc = "backend" => t.log = <<"Started">>
    /\ t.pc = "unlock" => t.log \in Ran(t) /\ lock_name(t.purge, t.store_idx) # <<>>
    /\ (t.pc = "done" /\ t.log # <<>> /\ t.log[1] = "Started") =>
          IF lock_name(t.purge, t.store_idx) = <<>>
          THEN t.log \in Ran(t)
          ELSE \E l \in Ran(t) :
                  t.log \in {l \o <<"remove_lock">>, l \o <<"remove_lock", "Error">>}

\* C24 as stated: the lock a purge has acquired is always eventually
\* released by that purge
C24_LockReleased ==
    \A idx \in 0..1, d \in 0..2 :
        (\E t \in BagToSet(tasks) :
            /\ IsPurge(t, "backend")
            /\ lock_name(t.purge, t.store_idx) = <<d>> \o to_be_bytes(idx))
        ~> ~\E l \in locks : l.key = <<d>> \o to_be_bytes(idx)

\* C24: the steps of a purge that passed the lock step come in the order
\* Started, backend call, Finished, remove_lock (when it has a lock name);
\* the purge comes to Finished and to remove_lock also when its backend call
\* fails; remove_lock answering Ok releases the lock, and remove_lock
\* answering an error leaves it to its time to live
C24_OrderedToTheEnd ==
    /\ [](\A t \in BagToSet(tasks) : t.kind = "purge" => InOrder(t))
    /\ ((\E t \in BagToSet(tasks) : IsPurge(t, "backend"))
          ~> (\E t \in BagToSet(tasks) :
                 /\ t.kind = "purge" /\ t.pc \in {"unlock", "done"}
                 /\ t.log \in Ran(t) \cup {l \o <<"remove_lock">> : l \in Ran(t)}
                              \cup {l \o <<"remove_lock", "Error">> : l \in Ran(t)}))
    /\ ((\E t \in BagToSet(tasks) : IsPurge(t, "unlock"))
          ~> (\E t \in BagToSet(tasks) :
                 /\ IsPurge(t, "done")
                 /\ t.log \in {l \o <<"remove_lock">> : l \in Ran(t)}
                              \cup {l \o <<"remove_lock", "Error">> : l \in Ran(t)}))
    /\ [][\A t \in BagToSet(tasks) :
             (IsPurge(t, "unlock") /\ CopiesIn(t, tasks') < CopiesIn(t, tasks)) =>
                \/ /\ \E u \in BagToSet(tasks') :
                         u.pc = "done" /\ u.log = t.log \o <<"remove_lock">>
                   /\ locks' = Unlocked(locks, lock_name(t.purge, t.store_idx))
                \/ /\ \E u \in BagToSet(tasks') :
                         u.pc = "done" /\ u.log = t.log \o <<"remove_lock", "Error">>
                   /\ locks' = locks]_vars

\* a purge whose backend call failed has emitted Finished, has called
\* remove_lock and has left no lock
C24_Witness ==
    /\ \E t \in BagToSet(tasks) :
          /\ IsPurge(t, "done")
          /\ t.log = <<"Started", backend_call(t.purge), "Error", "Finished",
                       "remove_lock">>
    /\ locks = {}

\* a purge task is spawned by this step
SpawnsPurge ==
    \E u \in BagToSet(tasks') :
        IsPurge(u, "begin") /\ CopiesIn(u, tasks') > CopiesIn(u, tasks)

\* C25 as stated: whenever Store(i) fires it is queued again at now +
\* cron.time_to_next(), whatever try_lock answers to its purge
C25_AlwaysRequeued ==
    [][(Firing("Store") /\ pc' = "tick") =>
          /\ HasSchedule(server, event.event.idx)
          /\ heap' = StoreRearmed(heap, server, event.event.idx)]_vars

\* C25: a Store(i) firing whose schedule i is configured queues Store(i) at
\* now + cron.time_to_next(), later than now, in the step that spawns its
\* purge, which has not run yet; a firing whose schedule is gone queues and
\* spawns nothing; the try_lock of a purge, answering true, false or an
\* error, changes neither the queue nor the scheduler's position and spawns
\* no purge; a purge is spawned by a firing or by a Purge event only, so a
\* skipped run is not tried again before Store(i) is due again
C25_RequeuedWhateverTheLock ==
    [][/\ (Firing("Store") /\ pc' = "tick") =>
             IF HasSchedule(server, event.event.idx)
             THEN LET s == server.purge_schedules[event.event.idx + 1]
                      due == now + time_to_next(s.cron, now)
                  IN  /\ due > now
                      /\ heap' = heap (+) SetToBag({Action(due, event.event)})
                      /\ Spawned(PurgeTask(PurgeOf(s.store), event.event.idx))
             ELSE heap' = heap /\ tasks' = tasks
       /\ \A t \in BagToSet(tasks) :
             (/\ IsPurge(t, "begin")
              /\ CopiesIn(t, tasks') < CopiesIn(t, tasks)
              /\ ~SpawnsPurge) =>
                 /\ heap' = heap
                 /\ pc' = pc
                 /\ \E u \in BagToSet(tasks') :
                       /\ CopiesIn(u, tasks') > CopiesIn(u, tasks)
                       /\ u \in {AfterTryLock(t, "true"), AfterTryLock(t, "false"),
                                 AfterTryLock(t, "err")}
       /\ SpawnsPurge =>
             \/ pc = "fire" /\ event.event.class \in {"Store", "Account"}
             \/ pc = "wait" /\ intake # <<>> /\ Head(intake).type = "Purge"]_vars

\* the purge of a Store(0) firing was skipped on contention, and Store(0) is
\* queued for its next instant
C25_Witness ==
    /\ \E t \in BagToSet(tasks) :
          IsPurge(t, "done") /\ t.log = <<"InProgress">> /\ t.purge = PurgeData(0)
    /\ \E a \in BagToSet(heap) : a.event = Store(0) /\ a.due > now
    /\ now > 0

----------------------------------------------------------------------------
(* The ACME renewal task and the Acme entries of the queue *)

\* C27: a renewal task has issued cluster_broadcast(ReloadSettings) only if
\* its server.renew returned Ok: a renewal that failed has issued none
C27_BroadcastOnlyAfterOk ==
    \A t \in BagToSet(tasks) :
        (t.kind = "acme" /\ t.broadcasts > 0) => t.ok

\* a renewal task of the provider id is running
Renewing(id) ==
    \E t \in BagToSet(tasks) :
        t.kind = "acme" /\ t.provider_id = id /\ t.pc # "done"

\* firing Acme(id) has removed it from the queue and does not queue it
\* again; an Acme(id) entry comes into a queue that has none only at the
\* startup or by the handling of an AcmeReschedule for id
C26_NoEntryUntilRescheduled ==
    /\ [](Firing("Acme") => CountOf(heap, event.event) = 0)
    /\ [][/\ (Firing("Acme") /\ pc' = "tick") => heap' = heap
          /\ \A id \in Range(cfg.providers) :
                (CountOf(heap, Acme(id)) = 0 /\ CountOf(heap', Acme(id)) > 0) =>
                    \/ pc = "init_acme"
                    \/ /\ Receiving
                       /\ Head(intake).type = "AcmeReschedule"
                       /\ Head(intake).provider_id = id
                       /\ intake' = Tail(intake)]_vars

\* C26: firing Acme(id) removes it from the queue and does not re-queue it;
\* until the next AcmeReschedule for id is handled the queue holds no
\* Acme(id) entry, so the renewal of a provider does not fire again while
\* its renewal task is still running
C26_NoSecondRenewal ==
    /\ C26_NoEntryUntilRescheduled
    /\ [][(Firing("Acme") /\ pc' = "tick") => ~Renewing(event.event.id)]_vars

----------------------------------------------------------------------------
(* The Purge event *)

\* the scheduler takes a Purge event from the intake
HandlesPurge ==
    Receiving /\ Head(intake).type = "Purge" /\ intake' = Tail(intake)

\* C30: the handling of a Purge(p) event spawns exactly one task, purge(p, 0),
\* and leaves the queue as it is: no entry is added, removed or re-timed,
\* and the scheduler waits again; a purge starts only by a Store or Account
\* firing or by the handling of a Purge event, so the purge of an event is
\* not repeated
C30_PurgeEventSpawnsOnce ==
    [][/\ HandlesPurge =>
            /\ Spawned(PurgeTask(Head(intake).purge, 0))
            /\ BagCardinality(Live(tasks')) = BagCardinality(Live(tasks)) + 1
            /\ \A u \in BagToSet(tasks) :
                  u.pc # "done" => CopiesIn(u, tasks') >= CopiesIn(u, tasks)
            /\ heap' = heap
            /\ pc' = "wait"
       /\ SpawnsPurge =>
            \/ HandlesPurge
            \/ pc = "fire" /\ event.event.class \in {"Store", "Account"}]_vars

\* on a node without roles, whose queue holds no Store and no Account, the
\* purge of a Purge(Data(0)) event has run to its end
C30_Witness ==
    /\ cfg.roles = Roles(FALSE)
    /\ heap # EmptyBag
    /\ \A a \in BagToSet(heap) : a.event.class \notin {"Store", "Account"}
    /\ \E t \in BagToSet(tasks) :
          /\ IsPurge(t, "done")
          /\ t.purge = PurgeData(0) /\ t.store_idx = 0
          /\ t.log \in Ran(t) \cup {l \o <<"remove_lock">> : l \in Ran(t)}

----------------------------------------------------------------------------
(* The lock of a purge, under KeySpec *)

\* the discriminator of the purges that lock: Data, Blobs, prefix-less Lookup
Discriminator(p) ==
    CASE p.type = "Data" -> 0
      [] p.type = "Blobs" -> 1
      [] p.type = "Lookup" /\ ~p.some -> 2
      [] OTHER -> -1

Locks(t) == t.kind = "purge" /\ Discriminator(t.purge) >= 0

\* the u32 a sequence of four bytes stands for, the most significant first
BigEndian(b) == ((b[1] * 256 + b[2]) * 256 + b[3]) * 256 + b[4]

\* C29: the lock key of purge(p, idx) is five bytes, d followed by the
\* big-endian four bytes of idx, d = 0 for Data, 1 for Blobs, 2 for a Lookup
\* without prefix; the keys of two purges are the same exactly when their d
\* and their idx are; the lock a purge holds is stored under its key, and a
\* purge is skipped as in progress only by a purge of the same d and idx
C29_LockKey ==
    /\ \A t \in BagToSet(tasks) :
          Locks(t) =>
             LET k == lock_name(t.purge, t.store_idx)
             IN  /\ Len(k) = 5
                 /\ \A n \in 1..5 : k[n] \in 0..255
                 /\ k[1] = Discriminator(t.purge)
                 /\ BigEndian(SubSeq(k, 2, 5)) = t.store_idx
                 /\ t.pc \in {"backend", "unlock"} => \E l \in locks : l.key = k
                 /\ (t.pc = "done" /\ t.log = <<"InProgress">>) =>
                        \E u \in BagToSet(tasks) :
                            /\ Locks(u) /\ u.log # <<"InProgress">>
                            /\ Discriminator(u.purge) = Discriminator(t.purge)
                            /\ u.store_idx = t.store_idx
    /\ \A t, u \in BagToSet(tasks) :
          (Locks(t) /\ Locks(u)) =>
             (lock_name(t.purge, t.store_idx) = lock_name(u.purge, u.store_idx)
                <=> (/\ Discriminator(t.purge) = Discriminator(u.purge)
                     /\ t.store_idx = u.store_idx))
    /\ \A l \in locks :
          \E t \in BagToSet(tasks) :
              /\ Locks(t)
              /\ Len(l.key) = 5
              /\ l.key[1] = Discriminator(t.purge)
              /\ BigEndian(SubSeq(l.key, 2, 5)) = t.store_idx

\* Data(0) and Data(1) purges of the store index 65536 have the same key,
\* <<0, 0, 1, 0, 0>>: one holds the lock and the other was skipped
C29_Witness ==
    /\ \E t \in BagToSet(tasks) :
          IsPurge(t, "backend") /\ t.purge = PurgeData(0) /\ t.store_idx = 65536
    /\ \E u \in BagToSet(tasks) :
          /\ IsPurge(u, "done") /\ u.purge = PurgeData(1) /\ u.store_idx = 65536
          /\ u.log = <<"InProgress">>
    /\ \E l \in locks : l.key = <<0, 0, 1, 0, 0>>

\* a purge of a Lookup with a prefix, or of accounts
Lockless(t) ==
    /\ t.kind = "purge"
    /\ \/ t.purge.type = "Lookup" /\ t.purge.some
       \/ t.purge.type = "Account"

\* C28: a purge of a Lookup with a prefix or of type Account calls neither
\* try_lock nor remove_lock: it is at its beginning, in its backend call
\* after Started, or over after Finished, it can always take its next step,
\* whatever locks are held, and its steps leave the locks as they are
C28_LocklessProceeds ==
    /\ [](\A t \in BagToSet(tasks) :
             Lockless(t) =>
                CASE t.pc = "begin" -> t.log = <<>> /\ ENABLED PurgeStart(t)
                  [] t.pc = "backend" ->
                        t.log = <<"Started">> /\ ENABLED PurgeBackend(t, FALSE)
                  [] t.pc = "done" -> t.log \in Ran(t)
                  [] OTHER -> FALSE)
    /\ [][\A t \in BagToSet(tasks) :
             (Lockless(t) /\ CopiesIn(t, tasks') < CopiesIn(t, tasks)) =>
                 /\ locks' = locks
                 /\ \E u \in BagToSet(tasks') :
                       /\ Spawned(u)
                       /\ u.purge = t.purge /\ u.store_idx = t.store_idx
                       /\ \/ t.pc = "begin" /\ u.pc = "backend"
                          \/ t.pc = "backend" /\ u.pc = "done"]_vars

\* a Lookup purge with a prefix and an Account purge are in their backend
\* calls at the same time
C28_Witness ==
    /\ \E t \in BagToSet(tasks) :
          IsPurge(t, "backend") /\ t.purge = PurgeLookup(0, TRUE)
    /\ \E u \in BagToSet(tasks) :
          IsPurge(u, "backend") /\ u.purge = PurgeAccount(TRUE)

----------------------------------------------------------------------------
(* Type: the byte decoding, and the byte encoding it undoes *)

\* the discriminant of a Type
to_u8(typ) ==
    CASE typ = "Individual" -> 0
      [] typ = "Group" -> 1
      [] typ = "Resource" -> 2
      [] typ = "Location" -> 3
      [] typ = "List" -> 5
      [] typ = "Other" -> 6
      [] typ = "Domain" -> 7
      [] typ = "Tenant" -> 8
      [] typ = "Role" -> 9
      [] typ = "ApiKey" -> 10
      [] typ = "OauthClient" -> 11

\* a decoding by the position of the variant in the enumeration
from_u8_ByPosition(value) ==
    CASE value = 0 -> "Individual"
      [] value = 1 -> "Group"
      [] value = 2 -> "Resource"
      [] value = 3 -> "Location"
      [] value = 4 -> "Other"
      [] value = 5 -> "List"
      [] value = 6 -> "Tenant"
      [] value = 7 -> "Role"
      [] value = 8 -> "Domain"
      [] value = 9 -> "ApiKey"
      [] value = 10 -> "OauthClient"
      [] OTHER -> "Other"

\* Type::from_u8
from_u8(value) ==
    CASE value = 0 -> "Individual"
      [] value = 1 -> "Group"
      [] value = 2 -> "Resource"
      [] value = 3 -> "Location"
      [] value = 4 -> "Other"
      [] value = 5 -> "List"
      [] value = 6 -> "Other"
      [] value = 7 -> "Domain"
      [] value = 8 -> "Tenant"
      [] value = 9 -> "Role"
      [] value = 10 -> "ApiKey"
      [] value = 11 -> "OauthClient"
      [] OTHER -> "Other"

\* u8
Bytes == 0..255

\* strings given to Type::parse: the domain strings, the legacy one, the
\* names of as_str and strings of no Type
TypeStrings == {to_jmap(t) : t \in Types} \cup Types
                  \cup {"superuser", "", "API Key", "individual ", "apikey"}

\* result holds the last call: its function, its argument and its value
TypeResult(op, arg, value) ==
    [op |-> op, key |-> "", was |-> arg, value |-> value, strs |-> {},
     ints |-> {}, doc |-> <<>>, err |-> ""]

Decode(value) ==
    /\ result' = TypeResult("from_u8", value, from_u8(value))
    /\ UNCHANGED principal
    /\ Housekeeper

\* a Type is encoded and the byte decoded
Recode(typ) ==
    /\ result' = TypeResult("to_u8", typ, from_u8(to_u8(typ)))
    /\ UNCHANGED principal
    /\ Housekeeper

Parse(value) ==
    /\ result' = TypeResult("parse", value, parse(value))
    /\ UNCHANGED principal
    /\ Housekeeper

TypeNext ==
    \/ \E value \in Bytes : Decode(value)
    \/ \E typ \in Types : Recode(typ)
    \/ \E value \in TypeStrings : Parse(value)

TypeSpec == PrincipalInit /\ [][TypeNext]_vars

\* the domain strings of the Types, and the legacy string
DomainStrings == {"individual", "group", "resource", "location", "list",
                  "tenant", "role", "domain", "apiKey", "oauthClient"}

\* C23: Type::from_u8 gives a Type for every byte and undoes the byte
\* encoding of every variant; 4 and the bytes of no variant decode to Other;
\* Type::parse("superuser") is Individual, and Type::parse accepts the
\* domain strings, each as its Type, the legacy "superuser", and nothing else
C23_TypeCodes ==
    /\ result.op = "from_u8" =>
          /\ result.value \in Types
          /\ (result.was = 4 \/ result.was \notin {to_u8(t) : t \in Types}) =>
                 result.value = "Other"
    /\ result.op = "to_u8" => result.value = result.was
    /\ result.op = "parse" =>
          /\ result.was = "superuser" => result.value = Some("Individual")
          /\ result.value.some <=> result.was \in DomainStrings \cup {"superuser"}
          /\ result.was \in DomainStrings =>
                 /\ result.value.some
                 /\ to_jmap(result.value.v) = result.was

\* Other, whose byte is 6, came back from its encoding
C23_Witness ==
    result.op = "to_u8" /\ result.was = "Other" /\ result.value = "Other"

----------------------------------------------------------------------------
(* Principal: the data list, the permission mutators and update_external.  *)
(* principal holds the Principal, result the last call and the updates      *)
(* update_external returned.                                                *)

\* entries of the permission list, and of the data list, at most
MaxGrants == 2
MaxData == 3

\* PrincipalData
Discriminators == {"MemberOf", "Roles", "Permissions", "Urls", "Lists",
                   "Picture", "PrincipalQuota"}
DataMemberOf(items) == [kind |-> "MemberOf", items |-> items]
DataRoles(items) == [kind |-> "Roles", items |-> items]
DataPermissions(items) == [kind |-> "Permissions", items |-> items]

PermissionGrant(permission, grant) == [permission |-> permission, grant |-> grant]

\* Principal::new
NewPrincipal(id, typ) ==
    [id |-> id, typ |-> typ, name |-> "", description |-> None,
     secrets |-> <<>>, emails |-> <<>>, quota |-> None, data |-> <<>>]

\* self.data.iter().find_map(..): the position of the first entry of a
\* kind, 0 when there is none
Find(data, kind) ==
    IF \E n \in DOMAIN data : data[n].kind = kind
    THEN CHOOSE n \in DOMAIN data :
            /\ data[n].kind = kind
            /\ \A m \in 1..(n - 1) : data[m].kind # kind
    ELSE 0

\* member_of(), roles(), permissions(): the items of the first entry of the
\* kind, or none
items_of(self, kind) ==
    IF Find(self.data, kind) = 0 THEN <<>>
    ELSE self.data[Find(self.data, kind)].items

\* the first position of a sequence whose element satisfies Test, or 0
Position(seq, Test(_)) ==
    IF \E n \in DOMAIN seq : Test(seq[n])
    THEN CHOOSE n \in DOMAIN seq :
            Test(seq[n]) /\ \A m \in 1..(n - 1) : ~Test(seq[m])
    ELSE 0

\* Vec::swap_remove
swap_remove(seq, n) ==
    IF n = Len(seq) THEN SubSeq(seq, 1, n - 1)
    ELSE [SubSeq(seq, 1, Len(seq) - 1) EXCEPT ![n] = seq[Len(seq)]]

\* permissions.retain(|p| p.grant != grant)
RECURSIVE Retained(_, _)
Retained(permissions, grant) ==
    IF permissions = <<>> THEN <<>>
    ELSE (IF Head(permissions).grant # grant THEN <<Head(permissions)>> ELSE <<>>)
             \o Retained(Tail(permissions), grant)

\* the principal with the items of its first Permissions entry replaced
WithPermissions(self, items) ==
    [self EXCEPT !.data[Find(self.data, "Permissions")].items = items]

\* Principal::add_permission
add_permission(self, permission, grant) ==
    IF Find(self.data, "Permissions") # 0
    THEN LET permissions == items_of(self, "Permissions")
             Same(p) == p.permission = permission
             n == Position(permissions, Same)
         IN  IF n # 0
             THEN WithPermissions(self, [permissions EXCEPT ![n].grant = grant])
             ELSE WithPermissions(self,
                      Append(permissions, PermissionGrant(permission, grant)))
    ELSE [self EXCEPT !.data =
             Append(@, DataPermissions(<<PermissionGrant(permission, grant)>>))]

\* Principal::add_permissions
add_permissions(self, iter) ==
    IF Find(self.data, "Permissions") # 0
    THEN WithPermissions(self, items_of(self, "Permissions") \o iter)
    ELSE [self EXCEPT !.data = Append(@, DataPermissions(iter))]

\* Principal::remove_permission
remove_permission(self, permission, grant) ==
    IF Find(self.data, "Permissions") # 0
    THEN LET permissions == items_of(self, "Permissions")
             Same(p) == p.permission = permission /\ p.grant = grant
             n == Position(permissions, Same)
         IN  IF n # 0
             THEN WithPermissions(self, swap_remove(permissions, n))
             ELSE self
    ELSE self

\* Principal::remove_permissions
remove_permissions(self, grant) ==
    IF Find(self.data, "Permissions") # 0
    THEN WithPermissions(self, Retained(items_of(self, "Permissions"), grant))
    ELSE self

\* PrincipalUpdate::set
UpdateSet(field, value) == [action |-> "Set", field |-> field, value |-> value]

\* Principal::update_external: the principal after the call, and the updates
\* it returns
update_external(self, external) ==
    LET member_of == items_of(external, "MemberOf")
        s1 == IF member_of # <<>>
              THEN [self EXCEPT !.data = Append(@, DataMemberOf(member_of))]
              ELSE self
        roles == items_of(external, "Roles")
        s2 == IF roles # <<>> /\ items_of(s1, "Roles") = <<>>
              THEN [s1 EXCEPT !.data = Append(@, DataRoles(roles))]
              ELSE s1
        d == /\ external.description.some
             /\ external.description.v # ""
             /\ self.description # external.description
        s3 == IF d THEN [s2 EXCEPT !.description = external.description] ELSE s2
        u3 == IF d THEN <<UpdateSet("Description", external.description.v)>>
              ELSE <<>>
        c == external.secrets # <<>> /\ external.secrets # self.secrets
        s4 == IF c THEN [s3 EXCEPT !.secrets = external.secrets] ELSE s3
        u4 == IF c THEN Append(u3, UpdateSet("Secrets", external.secrets)) ELSE u3
        e == external.emails # <<>> /\ external.emails # self.emails
        s5 == IF e THEN [s4 EXCEPT !.emails = external.emails] ELSE s4
        u5 == IF e THEN Append(u4, UpdateSet("Emails", external.emails)) ELSE u4
        q == external.quota.some /\ self.quota # external.quota
        s6 == IF q THEN [s5 EXCEPT !.quota = external.quota] ELSE s5
        u6 == IF q THEN Append(u5, UpdateSet("Quota", external.quota.v)) ELSE u5
    IN  [principal |-> s6, updates |-> u6]

\* the permissions and grants of the calls
Permissions == {"Impersonate", "EmailSend"}
Grants == {PermissionGrant(p, g) : p \in Permissions, g \in BOOLEAN}
GrantLists == {<<g>> : g \in Grants} \cup {<<g, h>> : g, h \in Grants}

\* the principals an external directory returns: with or without groups
\* (an entry may be empty) and roles, bare or with the fields of the record
ExternalData ==
    {m \o r : m \in {<<>>, <<DataMemberOf(<<>>)>>, <<DataMemberOf(<<1>>)>>},
              r \in {<<>>, <<DataRoles(<<2>>)>>}}
Externals ==
    {[NewPrincipal(7, "Individual") EXCEPT !.data = data] : data \in ExternalData}
    \cup {[NewPrincipal(7, "Individual") EXCEPT
              !.data = data, !.description = Some("d"), !.quota = Some(7)] :
          data \in ExternalData}
    \cup {[NewPrincipal(7, "Individual") EXCEPT
              !.data = data, !.description = Some(""), !.secrets = <<"s">>,
              !.emails = <<"a">>] :
          data \in ExternalData}

DataInit ==
    /\ now = 0
    /\ cfg = BareConfig(Roles(TRUE))
    /\ heap = EmptyBag
    /\ pc = "principal"
    /\ server = NoServer
    /\ todo = <<>>
    /\ event = NoAction
    /\ next_metric_update = 0
    /\ intake = <<>>
    /\ rx_closed = FALSE
    /\ tasks = EmptyBag
    /\ locks = {}
    /\ principal \in {NewPrincipal(id, "Individual") : id \in Ids}
    /\ result = [op |-> "new", updates |-> <<>>]

\* the permission list does not outgrow MaxGrants
Granted(p) == Len(items_of(p, "Permissions")) <= MaxGrants

AddPermission(permission, grant) ==
    /\ Granted(add_permission(principal, permission, grant))
    /\ principal' = add_permission(principal, permission, grant)
    /\ result' = [op |-> "add_permission", updates |-> <<>>,
                  permission |-> permission, grant |-> grant]
    /\ Housekeeper

AddPermissions(iter) ==
    /\ Granted(add_permissions(principal, iter))
    /\ principal' = add_permissions(principal, iter)
    /\ result' = [op |-> "add_permissions", updates |-> <<>>]
    /\ Housekeeper

RemovePermission(permission, grant) ==
    /\ principal' = remove_permission(principal, permission, grant)
    /\ result' = [op |-> "remove_permission", updates |-> <<>>]
    /\ Housekeeper

RemovePermissions(grant) ==
    /\ principal' = remove_permissions(principal, grant)
    /\ result' = [op |-> "remove_permissions", updates |-> <<>>]
    /\ Housekeeper

UpdateExternal(external) ==
    /\ Len(update_external(principal, external).principal.data) <= MaxData
    /\ principal' = update_external(principal, external).principal
    /\ result' = [op |-> "update_external",
                  updates |-> update_external(principal, external).updates]
    /\ Housekeeper

DataNext ==
    \/ \E permission \in Permissions, grant \in BOOLEAN :
          AddPermission(permission, grant)
    \/ \E iter \in GrantLists : AddPermissions(iter)
    \/ \E permission \in Permissions, grant \in BOOLEAN :
          RemovePermission(permission, grant)
    \/ \E grant \in BOOLEAN : RemovePermissions(grant)
    \/ \E external \in Externals : UpdateExternal(external)

DataSpec == DataInit /\ [][DataNext]_vars

\* the entries of a kind in the data list
Entries(p, kind) == {n \in DOMAIN p.data : p.data[n].kind = kind}

\* C21: a Principal made by Principal::new and changed by add_permission,
\* add_permissions, remove_permission, remove_permissions and
\* update_external has at most one data entry of each PrincipalData kind,
\* so that the first entry an accessor finds is the only one
C21_OneEntryPerKind ==
    \A kind \in Discriminators : Cardinality(Entries(principal, kind)) <= 1

\* the entries of a permission list for a permission
EntriesFor(permissions, permission) ==
    {n \in DOMAIN permissions : permissions[n].permission = permission}

\* the entries of a permission list for the other permissions, in order
OtherEntries(permissions, permission) ==
    LET Other(p) == p.permission # permission
    IN  SelectSeq(permissions, Other)

\* C34: after add_permission(p, g), on a principal that the permission
\* mutators built, permissions() has exactly one entry for p, its grant is g,
\* and the entries for the other permissions are as they were
C34_UpsertsOne ==
    [][result'.op = "add_permission" =>
          LET before == items_of(principal, "Permissions")
              after == items_of(principal', "Permissions")
              p == result'.permission
          IN  /\ Cardinality(EntriesFor(after, p)) = 1
              /\ \A n \in EntriesFor(after, p) : after[n].grant = result'.grant
              /\ OtherEntries(after, p) = OtherEntries(before, p)]_vars

----------------------------------------------------------------------------
(* build_search_index: the words of a principal in the directory index.    *)
(* principal holds the id and the two principals, result the index, what   *)
(* it was and the batches written to it.                                   *)

\* WordTokenizer::new(text, MAX_TOKEN_LENGTH).map(|t| t.word), on the texts
\* of the model
WordTokenizer(text) ==
    CASE text = "ann" -> {"ann"}
      [] text = "ann lee" -> {"ann", "lee"}
      [] text = "lee" -> {"lee"}
      [] text = "ann@x.org" -> {"ann", "x", "org"}
      [] text = "lee@x.org" -> {"lee", "x", "org"}
      [] OTHER -> {}

\* the words of the name, the description and the emails of an optional
\* principal
WordsOf(p) ==
    IF ~p.some THEN {}
    ELSE WordTokenizer(p.v.name)
           \cup (IF p.v.description.some
                 THEN WordTokenizer(p.v.description.v) ELSE {})
           \cup UNION {WordTokenizer(p.v.emails[n]) : n \in DOMAIN p.v.emails}

\* DirectoryClass::Index { word, principal_id }
Index(word, principal_id) == [word |-> word, principal_id |-> principal_id]

\* a build_search_index that sets every word of the new principal
build_search_index_SetsAll(principal_id, current, new_) ==
    [set |-> {Index(word, principal_id) : word \in WordsOf(new_)},
     clear |-> {Index(word, principal_id) :
                   word \in WordsOf(current) \ WordsOf(new_)}]

\* build_search_index: the keys its batch sets and the keys it clears
build_search_index(principal_id, current, new_) ==
    [set |-> {Index(word, principal_id) :
                 word \in WordsOf(new_) \ WordsOf(current)},
     clear |-> {Index(word, principal_id) :
                   word \in WordsOf(current) \ WordsOf(new_)}]

\* the index after a batch is written: its sets, then its clears
Written(index, batch) == (index \cup batch.set) \ batch.clear

\* the principals of the index: none, or one of a name, with or without a
\* description and emails
Indexed ==
    {None} \cup
    {Some([NewPrincipal(7, "Individual") EXCEPT
              !.name = name, !.description = description, !.emails = emails]) :
        name \in {"ann", "ann lee"},
        description \in {None, Some("lee")},
        emails \in {<<>>, <<"ann@x.org">>, <<"ann@x.org", "lee@x.org">>}}

\* what the index holds of other principals
OtherKeys == {{}, {Index("ann", 0), Index("org", 0)}}

NoBatch == [set |-> {}, clear |-> {}]

\* the index holds the words of the current principal, which
\* build_search_index wrote there
IndexInit ==
    /\ now = 0
    /\ cfg = BareConfig(Roles(TRUE))
    /\ heap = EmptyBag
    /\ pc = "principal"
    /\ server = NoServer
    /\ todo = <<>>
    /\ event = NoAction
    /\ next_metric_update = 0
    /\ intake = <<>>
    /\ rx_closed = FALSE
    /\ tasks = EmptyBag
    /\ locks = {}
    /\ \E a \in Indexed, b \in Indexed :
          principal = [id |-> 7, current |-> a, new |-> b]
    /\ \E others \in OtherKeys :
          LET index == others \cup {Index(word, principal.id) :
                                       word \in WordsOf(principal.current)}
          IN  result = [op |-> "none", index |-> index, was |-> index,
                        first |-> NoBatch, second |-> NoBatch]

\* build_search_index(current = A, new = B), and its batch written
Forth ==
    /\ result.op = "none"
    /\ LET batch == build_search_index(principal.id, principal.current, principal.new)
       IN  result' = [result EXCEPT !.op = "forth", !.first = batch,
                                    !.index = Written(@, batch)]
    /\ UNCHANGED principal
    /\ Housekeeper

\* build_search_index(current = B, new = A), and its batch written
Back ==
    /\ result.op = "forth"
    /\ LET batch == build_search_index(principal.id, principal.new, principal.current)
       IN  result' = [result EXCEPT !.op = "back", !.second = batch,
                                    !.index = Written(@, batch)]
    /\ UNCHANGED principal
    /\ Housekeeper

IndexNext == Forth \/ Back

IndexSpec == IndexInit /\ [][IndexNext]_vars

\* the keys of the words that both principals have
Common ==
    {Index(word, principal.id) :
        word \in WordsOf(principal.current) \cap WordsOf(principal.new)}

\* C22: after the batch of build_search_index(A, B) and then the batch of
\* build_search_index(B, A), for principals A and B of one id, the index is
\* as it was: the second batch clears the keys the first set and sets the
\* keys the first cleared; the words A and B have in common are neither set
\* nor cleared; every key of the batches is of that id
C22_ThereAndBack ==
    /\ result.op = "back" =>
          /\ result.index = result.was
          /\ result.second.clear = result.first.set
          /\ result.second.set = result.first.clear
    /\ result.op \in {"forth", "back"} =>
          /\ \A batch \in {result.first, result.second} :
                /\ Common \cap (batch.set \cup batch.clear) = {}
                /\ \A key \in batch.set \cup batch.clear :
                      key.principal_id = principal.id
          /\ result.first.set \cap result.first.clear = {}
          /\ \A key \in result.first.set : key \in result.index <=> result.op = "forth"
          /\ \A key \in result.first.clear : key \in result.index <=> result.op = "back"

\* a principal became another and the first again: they have words in
\* common, the first batch set keys and cleared keys, and the index holds
\* words of another principal
C22_Witness ==
    /\ result.op = "back"
    /\ Common # {}
    /\ result.first.set # {}
    /\ result.first.clear # {}
    /\ \E key \in result.index : key.principal_id # principal.id

----------------------------------------------------------------------------
(* PrincipalSet: the appends and the prepend of a field *)

\* str::parse::<u64>().unwrap_or_default() on the strings of the model
parse_u64(s) == IF s = "7" THEN 7 ELSE 0

\* PrincipalSet::append_int
append_int(p, key, value) ==
    IF key \in DOMAIN p.fields
    THEN LET v == p.fields[key] IN
         CASE v.shape = "IntegerList" ->
                IF ~contains(v.int, value)
                THEN set(p, key, IntegerList(Append(v.int, value)))
                ELSE p
           [] v.shape = "Integer" ->
                IF value # v.int[1]
                THEN set(p, key, IntegerList(<<v.int[1], value>>))
                ELSE p
           [] v.shape = "String" ->
                set(p, key, IntegerList(<<parse_u64(v.str[1]), value>>))
           [] v.shape = "StringList" ->
                set(p, key, IntegerList(Append([i \in DOMAIN v.str |-> parse_u64(v.str[i])],
                                               value)))
    ELSE set(p, key, IntegerList(<<value>>))

\* PrincipalSet::prepend_str
prepend_str(p, key, value) ==
    IF key \in DOMAIN p.fields
    THEN LET v == p.fields[key] IN
         CASE v.shape = "StringList" ->
                IF ~contains(v.str, value)
                THEN set(p, key, StringList(<<value>> \o v.str))
                ELSE p
           [] v.shape = "String" ->
                IF v.str[1] # value
                THEN set(p, key, StringList(<<value, v.str[1]>>))
                ELSE p
           [] v.shape = "Integer" ->
                set(p, key, StringList(<<value, to_string(v.int[1])>>))
           [] v.shape = "IntegerList" ->
                set(p, key, StringList(<<value>> \o [i \in DOMAIN v.int |-> to_string(v.int[i])]))
    ELSE set(p, key, StringList(<<value>>))

\* PrincipalSet::get_str, by PrincipalValue::as_str
get_str(p, key) ==
    IF key \in DOMAIN p.fields
    THEN LET v == p.fields[key] IN
         CASE v.shape = "String" -> Some(v.str[1])
           [] v.shape = "StringList" -> IF v.str # <<>> THEN Some(v.str[1]) ELSE None
           [] OTHER -> None
    ELSE None

\* the elements of a field, strings or integers
Elements(v) == v.str \o v.int

PAppendInt(key, value) ==
    /\ Len(Elements(append_int(principal, key, value).fields[key])) <= MaxLen
    /\ principal' = append_int(principal, key, value)
    /\ result' = [Result("append_int", key) EXCEPT !.was = Shape(principal, key),
                                                   !.ints = {value}]
    /\ Housekeeper

PPrependStr(key, value) ==
    /\ Len(Elements(prepend_str(principal, key, value).fields[key])) <= MaxLen
    /\ principal' = prepend_str(principal, key, value)
    /\ result' = [Result("prepend_str", key) EXCEPT !.was = Shape(principal, key),
                                                    !.value = value]
    /\ Housekeeper

\* the scalars a caller sets before it appends
Scalars == {String("a"), Integer(7)}

AppendNext ==
    \/ \E key \in Keys, value \in Scalars : PSet(key, value)
    \/ \E key \in Keys, value \in StrValues : PAppendStr(key, value)
    \/ \E key \in Keys, value \in IntValues : PAppendInt(key, value)
    \/ \E key \in Keys, value \in StrValues : PPrependStr(key, value)

AppendSpec == PrincipalInit /\ [][AppendNext]_vars

\* C32: a field that append_str, append_int and prepend_str built, in any
\* order, holds no value twice
C32_NoValueTwice ==
    \A key \in DOMAIN principal.fields :
        \A i, j \in DOMAIN Elements(principal.fields[key]) :
            Elements(principal.fields[key])[i] = Elements(principal.fields[key])[j]
               => i = j

\* C33: after prepend_str(F, v), whatever F held before, get_str(F) is v
C33_PrependedIsFirst ==
    [][result'.op = "prepend_str" =>
          get_str(principal', result'.key) = Some(result'.value)]_vars


----------------------------------------------------------------------------
(* The scheduler task and what it waits on *)

\* the scheduler task stands at server.init_acme(provider).await of its startup
AwaitsInitAcme == pc = "init_acme" /\ todo # <<>>

\* the scheduler task stands at queue_tx.send(QueueEvent::ReloadSettings).await
AwaitsQueueSend == pc = "reload_send"

\* C31: the scheduler task never waits on a backend operation or on the
\* bounded channel of another task; it waits on its timer and intake only
C31_SchedulerNeverWaits == ~AwaitsInitAcme /\ ~AwaitsQueueSend

----------------------------------------------------------------------------
(* The purges of a cluster whose backend calls may outlast the TTL of      *)
(* their locks: the clock moves whatever the purges hold                   *)

Oversleep ==
    /\ now < MaxSlumbers * (LOCK_TTL \div 2)
    /\ now' = now + (LOCK_TTL \div 2)
    /\ UNCHANGED <<cfg, heap, pc, server, todo, event, next_metric_update,
                   intake, rx_closed, tasks, locks, principal, result>>

ExpiryNext ==
    \/ \E idx \in 0..(Len(ClusterSchedules) - 1) : ScheduledPurge(idx)
    \/ \E p \in ClusterPurges : ManualPurge(p)
    \/ PurgeStep
    \/ Oversleep

ExpirySpec == PurgeInit /\ [][ExpiryNext]_vars

\* the lock l is the one the purge t acquired: try_lock answered Ok(true) at
\* the instant the purge started
Owns(t, l) ==
    /\ l.key = lock_name(t.purge, t.store_idx)
    /\ l.expires = t.time + LOCK_TTL

\* the purge t ends in this step
Ends(t) == IsPurge(t, "unlock") /\ CopiesIn(t, tasks') < CopiesIn(t, tasks)

\* C35: the remove_lock of a purge removes only the lock the purge acquired,
\* never the lock another purge acquired after the TTL of the first ran out
C35_RemovesOwnLock ==
    [][\A t \in BagToSet(tasks) :
          Ends(t) => \A l \in locks \ locks' : Owns(t, l)]_vars

----------------------------------------------------------------------------
(* A node that pushes its metrics, with an otel.interval of zero or of     *)
(* one Quantum                                                             *)

PushConfig(interval) ==
    [BareConfig([Roles(FALSE) EXCEPT !.push_metrics = TRUE,
                                     !.calculate_metrics = TRUE])
        EXCEPT !.otel = Otel(interval)]

PushInit ==
    /\ now = 0
    /\ cfg \in {PushConfig(0), PushConfig(Quantum)}
    /\ heap = EmptyBag
    /\ pc = "start"
    /\ server = NoServer
    /\ todo = <<>>
    /\ event = NoAction
    /\ next_metric_update = 0
    /\ intake = <<>>
    /\ rx_closed = FALSE
    /\ tasks = EmptyBag
    /\ locks = {}
    /\ principal = NoPrincipal
    /\ result = NoResult

PushScheduler ==
    \/ Seed
    \/ EnterLoop
    \/ Timeout
    \/ Pop
    \/ PopNone
    \/ FireOtelMetrics
    \/ FireCalculateMetrics

PushNext == PushScheduler \/ OtelStep \/ CalcStep \/ Advance

\* the scheduler task and the spawned tasks run when they can
PushSpec ==
    /\ PushInit
    /\ [][PushNext]_vars
    /\ WF_vars(PushScheduler)
    /\ WF_vars(OtelStep)
    /\ WF_vars(CalcStep)

\* C36: every timer tick ends: the loop that pops and fires the due actions
\* comes back to waiting on the intake, whatever the configured period
C36_TickEnds == (pc = "tick") ~> (pc = "wait")

----------------------------------------------------------------------------
(* The node that pushes its metrics, under a stream of ReloadSettings      *)
(* events: a sender may queue the next event whatever the scheduler task   *)
(* is doing, also while it handles the event before                        *)

Stream ==
    /\ pc # "stopped"
    /\ ~rx_closed
    /\ Len(intake) < MaxIntake
    /\ intake' = Append(intake, ReloadSettings)
    /\ UNCHANGED <<now, cfg, heap, pc, server, todo, event,
                   next_metric_update, rx_closed, tasks, locks,
                   principal, result>>

StreamInit ==
    /\ now = 0
    /\ cfg = PushConfig(Quantum)
    /\ heap = EmptyBag
    /\ pc = "start"
    /\ server = NoServer
    /\ todo = <<>>
    /\ event = NoAction
    /\ next_metric_update = 0
    /\ intake = <<>>
    /\ rx_closed = FALSE
    /\ tasks = EmptyBag
    /\ locks = {}
    /\ principal = NoPrincipal
    /\ result = NoResult

StreamScheduler ==
    \/ PushScheduler
    \/ RecvReloadSettings
    \/ ReloadSend

StreamNext == StreamScheduler \/ OtelStep \/ CalcStep \/ Advance \/ Stream

\* the scheduler task and the spawned tasks run when they can, and a timeout
\* that can elapse again and again does elapse
StreamSpec ==
    /\ StreamInit
    /\ [][StreamNext]_vars
    /\ WF_vars(StreamScheduler)
    /\ SF_vars(Timeout)
    /\ WF_vars(OtelStep)
    /\ WF_vars(CalcStep)

\* an action of the queue is due
Due == pc # "start" /\ PopSet(heap, now) # {}

\* C37: while the scheduler runs, a queued action that is due is popped and
\* fired in the end, however many events the intake receives
C37_DueIsFired == Due ~> (pc = "fire" \/ pc = "stopped")

----------------------------------------------------------------------------
(* The Acme entries of the queue, under RenewSpec *)

\* the scheduler takes an AcmeReschedule for the provider id from the intake
HandlesReschedule(id) ==
    /\ Receiving
    /\ Head(intake).type = "AcmeReschedule"
    /\ Head(intake).provider_id = id
    /\ intake' = Tail(intake)

\* C38: the queue holds at most one Acme(id) entry for every provider id,
\* also when the ACME reload of a ReloadSettings and a renewal task both send
\* AcmeReschedule for the id, in either order; the handling of an
\* AcmeReschedule leaves the one entry due at its renew_at, and no other
\* step of the loop queues or re-times an Acme(id) entry
C38_OneAcmeEntry ==
    /\ [](\A id \in Range(cfg.providers) : CountOf(heap, Acme(id)) <= 1)
    /\ [][\A id \in Range(cfg.providers) :
             /\ HandlesReschedule(id) =>
                   /\ CountOf(heap', Acme(id)) = 1
                   /\ CopiesIn(Action(Head(intake).renew_at, Acme(id)), heap') = 1
             /\ (~HandlesReschedule(id) /\ pc # "init_acme") =>
                   \A a \in BagToSet(heap') :
                       a.event = Acme(id) => a \in BagToSet(heap)]_vars

\* an Acme("p") entry is queued, the AcmeReschedule of a failed renewal of
\* "p" is in the intake and the ACME reload task is about to send its own
C38_Witness ==
    /\ CountOf(heap, Acme("p")) = 1
    /\ intake # <<>>
    /\ Head(intake).type = "AcmeReschedule"
    /\ Head(intake).provider_id = "p"
    /\ Head(intake).renew_at >= ACME_RETRY
    /\ \E t \in BagToSet(tasks) :
          t.kind = "reload" /\ t.pc = "send" /\ Head(t.providers) = "p"

----------------------------------------------------------------------------
(* The purge of a Purge event beside the purge of a Store firing, under    *)
(* PurgeSpec                                                               *)

\* the purge t is in its backend call
InBackend(t) == IsPurge(t, "backend")

\* C39: the purge of a Purge event, which runs with the store index 0, and
\* the purge of a Store(i) firing of the same store and purge type are never
\* in their backend call at the same time, whatever the index i
C39_ManualExcludesScheduled ==
    \A t, u \in BagToSet(tasks) :
        /\ InBackend(t) /\ t.store_idx = 0
        /\ InBackend(u) /\ u.purge = t.purge
        /\ lock_name(t.purge, t.store_idx) # <<>>
        => t = u /\ CopiesIn(t, tasks) = 1

----------------------------------------------------------------------------
(* The node that starts with everything configured and every role, and     *)
(* whose configuration is taken away and given back while it runs          *)

RestoreInit == Init /\ cfg = FullConfig(Roles(TRUE))

RestoreSpec == RestoreInit /\ [][Next]_vars

\* the scheduler takes a ReloadSettings event from the intake
HandlesReload ==
    Receiving /\ Head(intake).type = "ReloadSettings" /\ intake' = Tail(intake)

\* C40: no recurring action is lost by a change of the configuration: on a
\* node that started with its purge schedules and OTEL configured, once a
\* ReloadSettings has been handled under a configuration that has schedule i
\* (that has OTEL) the queue holds Store(i) (OtelMetrics), also when the
\* entry was popped while the configuration was away
C40_NotLost ==
    [][HandlesReload =>
          /\ \A idx \in 0..(Len(cfg.purge_schedules) - 1) :
                has_action(heap', Store(idx))
          /\ cfg.otel.some => has_action(heap', OtelMetrics)]_vars

============================================================================
